---- MODULE Spec2Model ----
(***************************************************************************)
(* Model of the chunking pipeline of teacher-helper                        *)
(* (packages/api/src/services/chunking.service.ts).                        *)
(*                                                                         *)
(* Text.  A string is a sequence of atoms.  An atom is a positive integer  *)
(* k (a word that the tokenizer encodes in k tokens and that is 4k         *)
(* characters long), SP (one blank), PB (the two line feeds "\n\n") or DOT *)
(* (the sentence-final full stop, one token and one character).           *)
(* Line feeds occur in pairs only.                                         *)
(***************************************************************************)
EXTENDS Integers, Sequences, FiniteSets, TLC

SP == 0
PB == -1
DOT == -2
undefined == "undefined"    \* an absent string field
noText == << -9 >>           \* an absent text (section.text or page.text undefined)
noPage == 0                  \* an absent page number (pageNumbers[0] of [])

\* ----------------------------------------------------------------- bounds
MaxTok == 3        \* the largest word, in tokens
MaxWords == 3      \* the most words of a document
MaxParts == 2      \* the most pages of a document
MaxCfg == 3        \* the largest minTokens / targetTokens / maxTokens of a small configuration
MaxOverlap == 1    \* the largest overlapTokens of a small configuration
MaxCalls == 2      \* the most chunkDocument calls of a behaviour
MaxPages == 2      \* the most pages of a document given to the parser
MaxLines == 3      \* the most lines of a page given to the parser
MaxRetries == 1    \* the largest maxRetries of the router's configuration
MaxFallbacks == 2  \* the most fallback models of a request
MaxTasks == 4      \* the most tasks given to the task queue
MaxConcurrent == 2 \* the largest maxConcurrent of the task queue

\* --------------------------------------------------------- string helpers
IsSpace(a) == a \in {SP, PB}

Max2(a, b) == IF a >= b THEN a ELSE b

RECURSIVE TrimStart(_)
TrimStart(t) ==
    IF t # << >> /\ IsSpace(Head(t)) THEN TrimStart(Tail(t)) ELSE t

RECURSIVE TrimEnd(_)
TrimEnd(t) ==
    IF t # << >> /\ IsSpace(t[Len(t)]) THEN TrimEnd(SubSeq(t, 1, Len(t) - 1)) ELSE t

\* String.prototype.trim
Trim(t) == TrimEnd(TrimStart(t))

\* Array.prototype.filter(x => x.length > 0) after map(x => x.trim())
RECURSIVE TrimAndDropEmpty(_)
TrimAndDropEmpty(ps) ==
    IF ps = << >> THEN << >>
    ELSE LET h == Trim(Head(ps))
         IN  (IF h = << >> THEN << >> ELSE <<h>>) \o TrimAndDropEmpty(Tail(ps))

\* text.split(/\n\s*\n/): the pieces between line-feed pairs.  A run of white
\* space that holds several pairs gives pieces of white space only, which the
\* caller trims and drops, as it does with the blanks the greedy \s* leaves.
RECURSIVE SplitOnPB(_)
SplitOnPB(t) ==
    IF t = << >> THEN << << >> >>
    ELSE LET rest == SplitOnPB(Tail(t))
         IN  IF Head(t) = PB THEN << << >> >> \o rest
             ELSE << <<Head(t)>> \o Head(rest) >> \o Tail(rest)

splitIntoParagraphs(text) == TrimAndDropEmpty(SplitOnPB(text))

\* text.split(/(?<=[.!?])\s+/): a piece ends where white space follows a DOT,
\* and the whole run of white space is the separator.
RECURSIVE SplitAfterDot(_, _)
SplitAfterDot(t, prev) ==
    IF t = << >> THEN << << >> >>
    ELSE IF IsSpace(Head(t)) /\ prev = DOT
         THEN << << >> >> \o SplitAfterDot(TrimStart(t), SP)
         ELSE LET rest == SplitAfterDot(Tail(t), Head(t))
              IN  << <<Head(t)>> \o Head(rest) >> \o Tail(rest)

splitIntoSentences(text) ==
    LET s == TrimAndDropEmpty(SplitAfterDot(text, SP))
    IN  IF Len(s) > 0 THEN s ELSE <<text>>

\* text.split(/\s+/) without its empty pieces (`if (!w) continue`).
RECURSIVE SplitOnSpace(_)
SplitOnSpace(t) ==
    IF t = << >> THEN << << >> >>
    ELSE LET rest == SplitOnSpace(Tail(t))
         IN  IF IsSpace(Head(t)) THEN << << >> >> \o rest
             ELSE << <<Head(t)>> \o Head(rest) >> \o Tail(rest)

RECURSIVE DropEmpty(_)
DropEmpty(ps) ==
    IF ps = << >> THEN << >>
    ELSE (IF Head(ps) = << >> THEN << >> ELSE <<Head(ps)>>) \o DropEmpty(Tail(ps))

Words(text) == DropEmpty(SplitOnSpace(text))

\* Array.prototype.join
RECURSIVE Join(_, _)
Join(ps, sep) ==
    IF ps = << >> THEN << >>
    ELSE IF Len(ps) = 1 THEN Head(ps)
    ELSE Head(ps) \o sep \o Join(Tail(ps), sep)

PARA_SEP == <<PB>>

\* ------------------------------------------------------------- tokenizer
\* String.prototype.length
RECURSIVE StrLen(_)
StrLen(t) ==
    IF t = << >> THEN 0
    ELSE (IF Head(t) > 0 THEN 4 * Head(t) ELSE IF Head(t) = PB THEN 2 ELSE 1)
         + StrLen(Tail(t))

\* encode(text).length of gpt-tokenizer: a word of k tokens, with the blank
\* before it, is k tokens; a full stop, a pair of line feeds and a blank that
\* no word follows are one token each.
RECURSIVE EncodeLength(_)
EncodeLength(t) ==
    IF t = << >> THEN 0
    ELSE LET h == Head(t)
             r == Tail(t)
         IN  (IF h > 0 THEN h
              ELSE IF h = SP /\ r # << >> /\ Head(r) > 0 THEN 0
              ELSE 1) + EncodeLength(r)

\* Math.ceil(a / b)
CeilDiv(a, b) == (a + b - 1) \div b

VARIABLES
    config,          \* ChunkingService.config of the one service instance
    input,           \* the ChunkingInput of the calls: [parsedPdf, config]
    result,          \* the ChunkingResult of the last chunkDocument call
    calls,           \* how many chunkDocument calls have returned
    encodeThrows,    \* whether encode() of the tokenizer library throws
    pdfPages,        \* PDFParserService: the pages that extractPages returned
    options,         \* PDFParserService.options
    parsed,          \* the headings and sections of the parsed document, or null
    orConfig,        \* OpenRouterService.config
    call,            \* the locals of the createCompletion call in progress
    attempts,        \* the executeCompletion calls so far: model, place in modelsToTry, outcome
    outcome,         \* what createCompletion returned or threw
    maxConcurrent,   \* TaskQueue.maxConcurrent
    syncQueue,       \* TaskQueue.syncQueue: the ids of the queued tasks
    asyncQueue,      \* TaskQueue.asyncQueue: the ids of the queued tasks
    runningTasks,    \* the keys of TaskQueue.runningTasks
    isProcessing,    \* TaskQueue.isProcessing
    enqueued,        \* the enqueue calls so far, in order: task id and mode
    started          \* the ids of the tasks whose execute() was called, in order

chunkerVars == <<config, input, result, calls, encodeThrows>>
parserVars == <<pdfPages, options, parsed>>
routerVars == <<orConfig, call, attempts, outcome>>
queueVars ==
    <<maxConcurrent, syncQueue, asyncQueue, runningTasks, isProcessing, enqueued, started>>
vars == <<chunkerVars, parserVars, routerVars, queueVars>>

countTokens(text) ==
    IF text = << >> THEN 0
    ELSE IF encodeThrows THEN CeilDiv(StrLen(text), 4)
    ELSE EncodeLength(text)

\* createHash('sha256').update(text).digest('hex'): SHA-256 is taken to be
\* free of collisions, so a digest is identified by the text it was made of.
generateHash(text) == [sha256 |-> text]

\* a || b on optional strings
OrElse(a, b) == IF a = undefined THEN b ELSE a

createChunk(seg, meta, seq) ==
    LET t == Trim(seg.text)
    IN  [text |-> t,
         tokenCount |-> IF seg.tokenCount # 0 THEN seg.tokenCount ELSE countTokens(t),
         sequence |-> seq,
         hash |-> generateHash(t),
         metadata |-> [meta EXCEPT !.headingContext = OrElse(seg.headingContext, meta.headingContext)]]

\* ------------------------------------------------------------ splitByWords
\* Math.max(1, Math.floor((overlapTokens / targetTokens) * n))
OverlapCount(cfg, n) == Max2(1, (cfg.overlapTokens * n) \div cfg.targetTokens)

\* Array.prototype.slice(-n), n >= 1
LastN(s, n) == IF n >= Len(s) THEN s ELSE SubSeq(s, Len(s) - n + 1, Len(s))

WordStep(st, w, cfg) ==
    LET wt == countTokens(w)
        nt == st.ct + wt + (IF Len(st.cw) > 0 THEN 1 ELSE 0)
    IN  IF nt > cfg.targetTokens /\ Len(st.cw) > 0
        THEN LET tx == Join(st.cw, <<SP>>)
                 cw2 == Append(LastN(st.cw, OverlapCount(cfg, Len(st.cw))), w)
             IN  [chunks |-> Append(st.chunks, [text |-> tx, tokenCount |-> countTokens(tx)]),
                  cw |-> cw2,
                  ct |-> countTokens(Join(cw2, <<SP>>))]
        ELSE [st EXCEPT !.cw = Append(st.cw, w), !.ct = nt]

RECURSIVE WordLoop(_, _, _)
WordLoop(ws, st, cfg) ==
    IF ws = << >> THEN st ELSE WordLoop(Tail(ws), WordStep(st, Head(ws), cfg), cfg)

\* line 86: the words left after the loop are the last piece
FlushWords(st) ==
    IF Len(st.cw) > 0
    THEN LET tx == Join(st.cw, <<SP>>)
         IN  Append(st.chunks, [text |-> tx, tokenCount |-> countTokens(tx)])
    ELSE st.chunks

splitByWords(text, cfg) ==
    FlushWords(WordLoop(Words(text), [chunks |-> << >>, cw |-> << >>, ct |-> 0], cfg))

\* ----------------------------------------------------- splitLargeParagraph
EmptyBuf == [text |-> << >>, tokenCount |-> 0]

\* { ...cur, pageNumbers: [], headingContext: meta.headingContext }
BufSeg(cur, meta) ==
    [text |-> cur.text, tokenCount |-> cur.tokenCount, pageNumbers |-> << >>,
     headingContext |-> meta.headingContext]

\* chunks.push(createChunk(buffer, meta, seq++)); stats.totalTokens += tokenCount
PushCounted(st, buf, meta) ==
    [st EXCEPT !.chunks = Append(@, createChunk(BufSeg(buf, meta), meta, st.seq)),
               !.seq = @ + 1,
               !.stats.totalTokens = @ + buf.tokenCount]

RECURSIVE PushWordChunks(_, _, _)
PushWordChunks(st, wcs, meta) ==
    IF wcs = << >> THEN st
    ELSE PushWordChunks(PushCounted(st, Head(wcs), meta), Tail(wcs), meta)

SentenceStep(st, s, cfg, meta) ==
    LET stok == countTokens(s)
        flushed == IF st.cur.tokenCount >= cfg.minTokens
                   THEN PushCounted(st, st.cur, meta) ELSE st
    IN  IF stok > cfg.maxTokens
        THEN [PushWordChunks(flushed, splitByWords(s, cfg), meta) EXCEPT !.cur = EmptyBuf]
        ELSE LET ct == IF st.cur.tokenCount > 0
                       THEN countTokens(st.cur.text \o <<SP>> \o s) ELSE stok
             IN  IF ct > cfg.maxTokens
                 THEN [flushed EXCEPT !.cur = [text |-> s, tokenCount |-> stok]]
                 ELSE [st EXCEPT !.cur = [text |-> IF st.cur.text # << >>
                                                   THEN st.cur.text \o <<SP>> \o s ELSE s,
                                          tokenCount |-> ct]]

RECURSIVE SentenceLoop(_, _, _, _)
SentenceLoop(ss, st, cfg, meta) ==
    IF ss = << >> THEN st
    ELSE SentenceLoop(Tail(ss), SentenceStep(st, Head(ss), cfg, meta), cfg, meta)

\* line 79: the sentences left in the buffer are the last fragment
FlushBuf(st, meta) ==
    IF st.cur.tokenCount > 0 THEN PushCounted(st, st.cur, meta) ELSE st

\* the chunks a function returns and the statistics it updated in place
ChunksAndStats(st) == [chunks |-> st.chunks, stats |-> st.stats]

\* returns [chunks, stats]: the fragments and the statistics it updated
splitLargeParagraph(text, cfg, stats, meta, startSeq) ==
    ChunksAndStats(FlushBuf(SentenceLoop(splitIntoSentences(text),
                                         [chunks |-> << >>, seq |-> startSeq,
                                          cur |-> EmptyBuf, stats |-> stats], cfg, meta),
                            meta))

\* --------------------------------------------------------- processSection
SectionMeta(section) ==
    [chapter |-> IF section.level = 1 THEN section.heading ELSE undefined,
     section |-> IF section.level > 1 THEN section.heading ELSE undefined,
     pageStart |-> section.pageStart,
     pageEnd |-> section.pageEnd,
     headingContext |-> section.heading]

\* { text: '', tokenCount: 0, pageNumbers: [section.pageStart], headingContext }
EmptySeg(section) ==
    [text |-> << >>, tokenCount |-> 0, pageNumbers |-> <<section.pageStart>>,
     headingContext |-> section.heading]

\* chunks.push(createChunk(cur, meta, seq++))
Push(st, meta) ==
    [st EXCEPT !.chunks = Append(@, createChunk(st.cur, meta, st.seq)), !.seq = @ + 1]

\* variant: a paragraph is appended after a blank instead of PARA_SEP
AppendParaBlank(cur, tp, ct) ==
    [cur EXCEPT !.text = IF cur.text # << >> THEN cur.text \o <<SP>> \o tp ELSE tp,
                !.tokenCount = ct]

\* cur.text = cur.text ? cur.text + PARA_SEP + tp : tp; cur.tokenCount = ct
AppendPara(cur, tp, ct) ==
    [cur EXCEPT !.text = IF cur.text # << >> THEN cur.text \o PARA_SEP \o tp ELSE tp,
                !.tokenCount = ct]

\* line 43: an accumulator of at least minTokens is emitted first
SectionFlushAtMin(st, section, cfg) ==
    IF st.cur.tokenCount >= cfg.minTokens
    THEN [Push(st, SectionMeta(section)) EXCEPT !.cur = EmptySeg(section)] ELSE st

\* line 46: for (const x of sc) { chunks.push(x); seq++; } stats.splitCount++
SectionPushAll(st, sc, stats) ==
    [st EXCEPT !.chunks = @ \o sc,
               !.seq = @ + Len(sc),
               !.stats = [stats EXCEPT !.splitCount = @ + 1]]

\* line 45, the inner if.  sc[0].text = ct; sc[0].tokenCount = cto: the hash
\* of sc[0] is left as splitLargeParagraph made it
SectionJoinFirst(st, sp, ct, section, cfg) ==
    LET cto == countTokens(ct)
    IN  IF cto <= cfg.maxTokens
        THEN SectionPushAll([st EXCEPT !.cur = EmptySeg(section)],
                            <<[sp.chunks[1] EXCEPT !.text = ct, !.tokenCount = cto]>>
                                \o Tail(sp.chunks),
                            sp.stats)
        ELSE SectionPushAll([Push(st, SectionMeta(section)) EXCEPT
                                !.cur = EmptySeg(section)],
                            sp.chunks, sp.stats)

\* variant: an accumulator under minTokens is dropped before the fragments
SectionJoinDropped(st, sp, section, cfg) ==
    SectionPushAll([st EXCEPT !.cur = EmptySeg(section)], sp.chunks, sp.stats)

\* lines 45-46: an accumulator under minTokens goes in front of the first fragment
SectionJoin(st, sp, section, cfg) ==
    IF st.cur.tokenCount > 0 /\ Len(sp.chunks) > 0
    THEN SectionJoinFirst(st, sp, st.cur.text \o PARA_SEP \o sp.chunks[1].text,
                          section, cfg)
    ELSE SectionPushAll(st, sp.chunks, sp.stats)

\* line 44
SectionSplit(st, tp, section, cfg) ==
    SectionJoin(st, splitLargeParagraph(tp, cfg, st.stats, SectionMeta(section), st.seq),
                section, cfg)

\* lines 42-47: a paragraph of more than maxTokens tokens
SectionLargeParagraph(st, tp, section, cfg) ==
    SectionSplit(SectionFlushAtMin(st, section, cfg), tp, section, cfg)

\* variant: a paragraph that does not fit makes the accumulator be emitted
\* whatever its size
SectionSmallParagraphAlwaysFlush(st, tp, pt, section, cfg) ==
    LET ct == IF st.cur.tokenCount > 0
              THEN countTokens(st.cur.text \o PARA_SEP \o tp) ELSE pt
    IN  IF ct > cfg.maxTokens
        THEN [Push(st, SectionMeta(section)) EXCEPT
                 !.cur = [text |-> tp, tokenCount |-> pt,
                          pageNumbers |-> <<section.pageStart>>,
                          headingContext |-> section.heading]]
        ELSE [st EXCEPT !.cur = AppendPara(st.cur, tp, ct)]

\* lines 48-50: a paragraph of at most maxTokens tokens
SectionSmallParagraph(st, tp, pt, section, cfg) ==
    LET ct == IF st.cur.tokenCount > 0
              THEN countTokens(st.cur.text \o PARA_SEP \o tp) ELSE pt
    IN  IF ct > cfg.maxTokens /\ st.cur.tokenCount >= cfg.minTokens
        THEN [Push(st, SectionMeta(section)) EXCEPT
                 !.cur = [text |-> tp, tokenCount |-> pt,
                          pageNumbers |-> <<section.pageStart>>,
                          headingContext |-> section.heading]]
        ELSE [st EXCEPT !.cur = AppendPara(st.cur, tp, ct)]

SectionParagraphStep(st, p, section, cfg) ==
    LET counted == [st EXCEPT !.stats.paragraphsProcessed = @ + 1]
        tp == Trim(p)
        pt == countTokens(tp)
    IN  IF tp = << >> THEN counted
        ELSE IF pt > cfg.maxTokens THEN SectionLargeParagraph(counted, tp, section, cfg)
        ELSE SectionSmallParagraph(counted, tp, pt, section, cfg)

RECURSIVE SectionParagraphLoop(_, _, _, _)
SectionParagraphLoop(ps, st, section, cfg) ==
    IF ps = << >> THEN st
    ELSE SectionParagraphLoop(Tail(ps), SectionParagraphStep(st, Head(ps), section, cfg),
                              section, cfg)

\* line 52: what is left in the accumulator is the last chunk of the section
SectionFlush(st, section) ==
    IF st.cur.tokenCount > 0 THEN Push(st, SectionMeta(section)) ELSE st

\* returns [chunks, stats]
processSection(section, cfg, stats, startSeq) ==
    ChunksAndStats(SectionFlush(
        SectionParagraphLoop(splitIntoParagraphs(section.text),
                             [chunks |-> << >>, cur |-> EmptySeg(section),
                              seq |-> startSeq, stats |-> stats], section, cfg),
        section))

\* line 31: chunks.push(...sc); seq += sc.length
SectionAppend(st, r) ==
    [chunks |-> st.chunks \o r.chunks, seq |-> st.seq + Len(r.chunks), stats |-> r.stats]

RECURSIVE SectionLoop(_, _, _)
SectionLoop(secs, st, cfg) ==
    IF secs = << >> THEN st
    ELSE SectionLoop(Tail(secs),
                     SectionAppend(st, processSection(Head(secs), cfg,
                                       [st.stats EXCEPT !.sectionsProcessed = @ + 1],
                                       st.seq)),
                     cfg)

\* returns [chunks, stats]
chunkBySections(pdf, cfg, stats) ==
    ChunksAndStats(SectionLoop(pdf.sections,
                               [chunks |-> << >>, seq |-> 0, stats |-> stats], cfg))

\* ------------------------------------------------------------ chunkByPages
\* { pageStart: cur.pageNumbers[0], pageEnd: cur.pageNumbers[length - 1] }
PageMeta(first, last) ==
    [chapter |-> undefined, section |-> undefined, pageStart |-> first,
     pageEnd |-> last, headingContext |-> undefined]

CurPageMeta(cur) ==
    IF cur.pageNumbers = << >> THEN PageMeta(noPage, noPage)
    ELSE PageMeta(cur.pageNumbers[1], cur.pageNumbers[Len(cur.pageNumbers)])

EmptyPageSeg ==
    [text |-> << >>, tokenCount |-> 0, pageNumbers |-> << >>, headingContext |-> undefined]

Includes(s, x) == \E i \in 1..Len(s) : s[i] = x

\* lines 61, 63: an accumulator of at least minTokens is emitted
PageFlushAtMin(st, cfg) ==
    IF st.cur.tokenCount >= cfg.minTokens THEN Push(st, CurPageMeta(st.cur)) ELSE st

\* line 61: the fragments are pushed, the accumulator is emptied, splitCount++
PagePushAll(st, sp) ==
    [chunks |-> st.chunks \o sp.chunks,
     seq |-> st.seq + Len(sp.chunks),
     cur |-> EmptyPageSeg,
     stats |-> [sp.stats EXCEPT !.splitCount = @ + 1]]

PageSplit(st, tp, pg, cfg) ==
    PagePushAll(st, splitLargeParagraph(tp, cfg, st.stats,
                                        PageMeta(pg.pageNumber, pg.pageNumber), st.seq))

\* line 61: a paragraph of more than maxTokens tokens
PageLargeParagraph(st, tp, pg, cfg) == PageSplit(PageFlushAtMin(st, cfg), tp, pg, cfg)

\* variant: the page strategy appends to an accumulator under minTokens whatever
\* the combined size, as the section strategy does
PageSmallParagraphForced(st, tp, pt, pg, cfg) ==
    LET ct == IF st.cur.tokenCount > 0
              THEN countTokens(st.cur.text \o PARA_SEP \o tp) ELSE pt
    IN  IF ct > cfg.maxTokens /\ st.cur.tokenCount >= cfg.minTokens
        THEN [Push(st, CurPageMeta(st.cur)) EXCEPT
                 !.cur = [text |-> tp, tokenCount |-> pt,
                          pageNumbers |-> <<pg.pageNumber>>,
                          headingContext |-> undefined]]
        ELSE [st EXCEPT !.cur = [AppendPara(st.cur, tp, ct) EXCEPT
                 !.pageNumbers = IF Includes(@, pg.pageNumber) THEN @
                                 ELSE Append(@, pg.pageNumber)]]

\* lines 62-64: a paragraph of at most maxTokens tokens
PageSmallParagraph(st, tp, pt, pg, cfg) ==
    LET ct == IF st.cur.tokenCount > 0
              THEN countTokens(st.cur.text \o PARA_SEP \o tp) ELSE pt
    IN  IF ct > cfg.maxTokens
        THEN [PageFlushAtMin(st, cfg) EXCEPT !.cur = [text |-> tp, tokenCount |-> pt,
                                 pageNumbers |-> <<pg.pageNumber>>,
                                 headingContext |-> undefined]]
        ELSE [st EXCEPT !.cur = [AppendPara(st.cur, tp, ct) EXCEPT
                 !.pageNumbers = IF Includes(@, pg.pageNumber) THEN @
                                 ELSE Append(@, pg.pageNumber)]]

PageParagraphStep(st, p, pg, cfg) ==
    LET counted == [st EXCEPT !.stats.paragraphsProcessed = @ + 1]
        tp == Trim(p)
        pt == countTokens(tp)
    IN  IF tp = << >> THEN counted
        ELSE IF pt > cfg.maxTokens THEN PageLargeParagraph(counted, tp, pg, cfg)
        ELSE PageSmallParagraph(counted, tp, pt, pg, cfg)

RECURSIVE PageParagraphLoop(_, _, _, _)
PageParagraphLoop(ps, st, pg, cfg) ==
    IF ps = << >> THEN st
    ELSE PageParagraphLoop(Tail(ps), PageParagraphStep(st, Head(ps), pg, cfg), pg, cfg)

RECURSIVE PageLoop(_, _, _)
PageLoop(pgs, st, cfg) ==
    IF pgs = << >> THEN st
    ELSE PageLoop(Tail(pgs),
                  PageParagraphLoop(splitIntoParagraphs(Head(pgs).text), st, Head(pgs), cfg),
                  cfg)

\* line 67: what is left in the accumulator is the last chunk
PageFlush(st) == IF st.cur.tokenCount > 0 THEN Push(st, CurPageMeta(st.cur)) ELSE st

\* variant: the accumulator left after the last page is not flushed
chunkByPagesNoFlush(pdf, cfg, stats) ==
    ChunksAndStats(PageLoop(pdf.pages, [chunks |-> << >>, seq |-> 0, cur |-> EmptyPageSeg,
                                        stats |-> stats], cfg))

\* returns [chunks, stats]
chunkByPages(pdf, cfg, stats) ==
    ChunksAndStats(PageFlush(PageLoop(pdf.pages,
                                      [chunks |-> << >>, seq |-> 0, cur |-> EmptyPageSeg,
                                       stats |-> stats], cfg)))

\* -------------------------------------------------------- mergeSmallChunks
\* variant: a merged chunk keeps the pageEnd of its first chunk
PageOrElseFirst(a, b) == b

\* ch.metadata.pageEnd || cur.metadata.pageEnd
PageOrElse(a, b) == IF a = noPage THEN b ELSE a

\* merged.push(cur); stats.totalTokens += cur.tokenCount
MergeFlush(st) ==
    [st EXCEPT !.merged = Append(@, st.cur), !.stats.totalTokens = @ + st.cur.tokenCount]

\* variant: two chunks are merged only if they count less than maxTokens together
MergeStepBelowMax(st, ch, cfg) ==
    LET ct == st.cur.text \o PARA_SEP \o ch.text
        cto == countTokens(ct)
    IN  IF ~st.hasCur THEN [st EXCEPT !.cur = ch, !.hasCur = TRUE]
        ELSE IF st.cur.tokenCount < cfg.minTokens /\ cto < cfg.maxTokens
        THEN [st EXCEPT !.cur = [@ EXCEPT !.text = ct, !.tokenCount = cto,
                                          !.hash = generateHash(ct),
                                          !.metadata.pageEnd =
                                              PageOrElse(ch.metadata.pageEnd, @)],
                        !.stats.mergeCount = @ + 1]
        ELSE [MergeFlush(st) EXCEPT !.cur = ch]

\* variant: a chunk under minTokens is merged with the next whatever the size
MergeStepAnySize(st, ch, cfg) ==
    LET ct == st.cur.text \o PARA_SEP \o ch.text
        cto == countTokens(ct)
    IN  IF ~st.hasCur THEN [st EXCEPT !.cur = ch, !.hasCur = TRUE]
        ELSE IF st.cur.tokenCount < cfg.minTokens
        THEN [st EXCEPT !.cur = [@ EXCEPT !.text = ct, !.tokenCount = cto,
                                          !.hash = generateHash(ct),
                                          !.metadata.pageEnd =
                                              PageOrElse(ch.metadata.pageEnd, @)],
                        !.stats.mergeCount = @ + 1]
        ELSE [MergeFlush(st) EXCEPT !.cur = ch]

MergeStep(st, ch, cfg) ==
    LET ct == st.cur.text \o PARA_SEP \o ch.text
        cto == countTokens(ct)
    IN  IF ~st.hasCur THEN [st EXCEPT !.cur = ch, !.hasCur = TRUE]
        ELSE IF st.cur.tokenCount < cfg.minTokens /\ cto <= cfg.maxTokens
        THEN [st EXCEPT !.cur = [@ EXCEPT !.text = ct, !.tokenCount = cto,
                                          !.hash = generateHash(ct),
                                          !.metadata.pageEnd =
                                              PageOrElse(ch.metadata.pageEnd, @)],
                        !.stats.mergeCount = @ + 1]
        ELSE [MergeFlush(st) EXCEPT !.cur = ch]

RECURSIVE MergeLoop(_, _, _)
MergeLoop(chs, st, cfg) ==
    IF chs = << >> THEN st ELSE MergeLoop(Tail(chs), MergeStep(st, Head(chs), cfg), cfg)

\* line 93: if (cur) { merged.push(cur); ... } return merged
MergeResult(st) ==
    IF st.hasCur THEN [chunks |-> Append(st.merged, st.cur),
                       stats |-> [st.stats EXCEPT !.totalTokens = @ + st.cur.tokenCount]]
    ELSE [chunks |-> st.merged, stats |-> st.stats]

\* returns [chunks, stats]
mergeSmallChunks(chunks, cfg, stats) ==
    IF Len(chunks) < 2 THEN [chunks |-> chunks, stats |-> stats]
    ELSE MergeResult(MergeLoop(chunks, [merged |-> << >>, cur |-> chunks[1],
                                        hasCur |-> FALSE, stats |-> stats], cfg))

\* ----------------------------------------------------------- chunkDocument
DEFAULT_CHUNKING_CONFIG ==
    [minTokens |-> 300, maxTokens |-> 800, targetTokens |-> 500, overlapTokens |-> 50,
     respectSectionBoundaries |-> TRUE]

\* { ...base, ...partial }
Overlay(base, partial) ==
    [k \in DOMAIN base \cup DOMAIN partial |->
        IF k \in DOMAIN partial THEN partial[k] ELSE base[k]]

null == [null |-> TRUE]

\* no call has returned yet
NoResult == [none |-> TRUE]

ZeroStats ==
    [totalChunks |-> 0, averageTokens |-> 0, minTokens |-> 0, maxTokens |-> 0,
     totalTokens |-> 0, paragraphsProcessed |-> 0, sectionsProcessed |-> 0,
     mergeCount |-> 0, splitCount |-> 0]

\* variant: the statistics are kept by the service from one call to the next
StatsOfService == IF result = NoResult THEN ZeroStats ELSE result.stats

\* line 19: the statistics of one call; minTokens, Infinity here, is always
\* assigned on line 24 before the result is built
NewStats == ZeroStats

\* variant: the message of a failure is a fixed text
createErrorFixedMessage(code, message, details) ==
    [success |-> FALSE, chunks |-> << >>, stats |-> ZeroStats, config |-> config,
     error |-> [code |-> code, message |-> <<"Chunking failed">>, details |-> details]]

createError(code, message, details) ==
    [success |-> FALSE, chunks |-> << >>, stats |-> ZeroStats, config |-> config,
     error |-> [code |-> code, message |-> message, details |-> details]]

\* variant: !text, without the trim
IsBlankUntrimmed(text) == text = noText \/ text = << >>

\* !text?.trim()
IsBlank(text) == text = noText \/ Trim(text) = << >>

UsesSections(pdf, cfg) == cfg.respectSectionBoundaries /\ Len(pdf.sections) > 0

\* text.split of an undefined text raises a TypeError inside the try block
TypeErrorMessage == "Cannot read properties of undefined (reading 'split')"

Raises(pdf, cfg) ==
    IF UsesSections(pdf, cfg)
    THEN \E i \in 1..Len(pdf.sections) : pdf.sections[i].text = noText
    ELSE \E i \in 1..Len(pdf.pages) : pdf.pages[i].text = noText

\* variant: the provisional sequence numbers are kept
RenumberSkipped(chunks) == chunks

\* chunks.map((c, i) => ({ ...c, sequence: i }))
Renumber(chunks) == [i \in 1..Len(chunks) |-> [chunks[i] EXCEPT !.sequence = i - 1]]

RECURSIVE MinTokenCount(_)
MinTokenCount(chunks) ==
    IF Len(chunks) = 1 THEN chunks[1].tokenCount
    ELSE LET m == MinTokenCount(Tail(chunks))
         IN  IF chunks[1].tokenCount <= m THEN chunks[1].tokenCount ELSE m

RECURSIVE MaxTokenCount(_)
MaxTokenCount(chunks) ==
    IF Len(chunks) = 1 THEN chunks[1].tokenCount
    ELSE Max2(chunks[1].tokenCount, MaxTokenCount(Tail(chunks)))

\* Math.round(a / b), a >= 0, b > 0
RoundDiv(a, b) == (2 * a + b) \div (2 * b)

\* lines 23-24
FinalStats(stats, chunks) ==
    IF Len(chunks) > 0
    THEN [stats EXCEPT !.totalChunks = Len(chunks),
                       !.averageTokens = RoundDiv(stats.totalTokens, Len(chunks)),
                       !.minTokens = MinTokenCount(chunks),
                       !.maxTokens = MaxTokenCount(chunks)]
    ELSE [stats EXCEPT !.totalChunks = 0, !.minTokens = 0]

\* line 20
RawChunks(pdf, cfg, stats) ==
    IF UsesSections(pdf, cfg) THEN chunkBySections(pdf, cfg, stats)
    ELSE chunkByPages(pdf, cfg, stats)

\* line 21
Merged(raw, cfg) == mergeSmallChunks(raw.chunks, cfg, raw.stats)

\* lines 22-25
Finished(chunks, stats, cfg) ==
    [success |-> TRUE, chunks |-> chunks, stats |-> FinalStats(stats, chunks), config |-> cfg]

Success(mrg, cfg) == Finished(Renumber(mrg.chunks), mrg.stats, cfg)

chunkDocument(in) ==
    LET cfg == Overlay(config, in.config)
        pdf == in.parsedPdf
    IN  IF pdf = null THEN createError("EMPTY_DOCUMENT", <<"No parsed PDF provided">>, undefined)
        ELSE IF IsBlank(pdf.fullText)
        THEN createError("NO_TEXT_CONTENT", <<"Parsed PDF has no text">>, undefined)
        ELSE IF Raises(pdf, cfg)
        THEN createError("UNKNOWN_ERROR", <<"Chunking failed: ", TypeErrorMessage>>, "stack")
        ELSE Success(Merged(RawChunks(pdf, cfg, NewStats), cfg), cfg)

\* ======================================================== PDFParserService
\* A text of the parser is kept as the list of its lines, text.split('\n');
\* a line is a list of atoms, a blank (WS) or a run of other characters.
WS == " "

\* ''
EmptyStr == << << >> >>

\* '\n'
NL == << << >>, << >> >>

\* s + t
Concat(s, t) == SubSeq(s, 1, Len(s) - 1) \o <<s[Len(s)] \o Head(t)>> \o Tail(t)

\* lines.join('\n')
JoinLines(ls) == IF ls = << >> THEN EmptyStr ELSE ls

RECURSIVE TrimLineStart(_)
TrimLineStart(l) == IF l # << >> /\ Head(l) = WS THEN TrimLineStart(Tail(l)) ELSE l

RECURSIVE TrimLineEnd(_)
TrimLineEnd(l) ==
    IF l # << >> /\ l[Len(l)] = WS THEN TrimLineEnd(SubSeq(l, 1, Len(l) - 1)) ELSE l

\* String.prototype.trim of one line
TrimLine(l) == TrimLineEnd(TrimLineStart(l))

RECURSIVE TrimTextStart(_)
TrimTextStart(t) ==
    IF Len(t) > 1 /\ TrimLine(Head(t)) = << >> THEN TrimTextStart(Tail(t))
    ELSE <<TrimLineStart(Head(t))>> \o Tail(t)

RECURSIVE TrimTextEnd(_)
TrimTextEnd(t) ==
    IF Len(t) > 1 /\ TrimLine(t[Len(t)]) = << >> THEN TrimTextEnd(SubSeq(t, 1, Len(t) - 1))
    ELSE SubSeq(t, 1, Len(t) - 1) \o <<TrimLineEnd(t[Len(t)])>>

\* String.prototype.trim of a text of several lines
TrimText(t) == TrimTextEnd(TrimTextStart(t))

\* the characters of an atom
AtomLength(a) ==
    CASE a = WS -> 1
      [] a = "Chapter 1" -> 9
      [] a = "Section 2" -> 9
      [] a = "alpha" -> 5
      [] a = "be" -> 2

RECURSIVE LineLength(_)
LineLength(l) == IF l = << >> THEN 0 ELSE AtomLength(Head(l)) + LineLength(Tail(l))

DEFAULT_PDF_PARSER_OPTIONS ==
    [detectHeadings |-> TRUE,
     headingPatterns |-> <<"^Chapter\\s+\\d+", "^CHAPTER\\s+\\d+", "^Section\\s+\\d+",
                           "^SECTION\\s+\\d+", "^\\d+\\.\\s+[A-Z]", "^\\d+\\.\\d+\\s+[A-Z]",
                           "^[A-Z][A-Z\\s]{10,}$">>,
     minHeadingLength |-> 3,
     maxHeadingLength |-> 150]

\* new RegExp(p, 'gm') does not throw
Compiles(p) == p # "("

\* regex.test(line), for the lines of the documents
Test(p, line) ==
    /\ line # << >>
    /\ \/ p = "^Chapter\\s+\\d+" /\ Head(line) = "Chapter 1"
       \/ p = "^Section\\s+\\d+" /\ Head(line) = "Section 2"

\* a || b on numbers
NumOrElse(a, b) == IF a = 0 THEN b ELSE a

\* the patterns that compile, in their order
RegexPatterns(opts) == SelectSeq(opts.headingPatterns, Compiles)

\* the position, from 0, of the first pattern that matches the line; -1 if none
RECURSIVE FirstMatch(_, _, _)
FirstMatch(regexPatterns, line, pi) ==
    IF pi >= Len(regexPatterns) THEN -1
    ELSE IF Test(regexPatterns[pi + 1], line) THEN pi
    ELSE FirstMatch(regexPatterns, line, pi + 1)

\* pi < 2 ? 1 : pi < 4 ? 2 : 3
PatternLevel(pi) == IF pi < 2 THEN 1 ELSE IF pi < 4 THEN 2 ELSE 3

\* the headings, none or one, of one line
LineHeadings(rawLine, pageNumber, lineIndex, opts) ==
    LET line == TrimLine(rawLine)
        pi == FirstMatch(RegexPatterns(opts), line, 0)
    IN  IF \/ LineLength(line) < NumOrElse(opts.minHeadingLength, 3)
           \/ LineLength(line) > NumOrElse(opts.maxHeadingLength, 150)
           \/ pi < 0
        THEN << >>
        ELSE <<[text |-> line, level |-> PatternLevel(pi), pageNumber |-> pageNumber,
                position |-> lineIndex]>>

RECURSIVE PageHeadings(_, _, _)
PageHeadings(page, lineIndex, opts) ==
    IF lineIndex >= Len(page.text) THEN << >>
    ELSE LineHeadings(page.text[lineIndex + 1], page.pageNumber, lineIndex, opts)
         \o PageHeadings(page, lineIndex + 1, opts)

RECURSIVE detectHeadings(_, _)
detectHeadings(pgs, opts) ==
    IF pgs = << >> THEN << >>
    ELSE PageHeadings(Head(pgs), 0, opts) \o detectHeadings(Tail(pgs), opts)

\* lines.findIndex((l) => l.trim() === text), from 0; -1 if there is none
RECURSIVE FindIndex(_, _, _)
FindIndex(lines, text, i) ==
    IF i >= Len(lines) THEN -1
    ELSE IF TrimLine(lines[i + 1]) = text THEN i
    ELSE FindIndex(lines, text, i + 1)

\* lines.slice(idx + 1).join('\n')
AfterLine(lines, idx) == JoinLines(SubSeq(lines, idx + 2, Len(lines)))

\* lines.slice(0, idx).join('\n')
BeforeLine(lines, idx) == JoinLines(SubSeq(lines, 1, idx))

SectionPageStart(hs, i) == hs[i].pageNumber

\* variant: a section ends on the page before the next heading's page
SectionPageEndBefore(pgs, hs, i) ==
    IF i < Len(hs) THEN hs[i + 1].pageNumber - 1 ELSE Len(pgs)

\* nextHeading ? nextHeading.pageNumber : pages.length
SectionPageEnd(pgs, hs, i) == IF i < Len(hs) THEN hs[i + 1].pageNumber ELSE Len(pgs)

\* what one page adds to sectionText
SectionPageText(page, hs, i, pageStart, pageEnd) ==
    IF page.pageNumber = pageStart
    THEN LET idx == FindIndex(page.text, hs[i].text, 0)
         IN  IF idx >= 0 THEN AfterLine(page.text, idx) ELSE page.text
    ELSE IF page.pageNumber = pageEnd /\ i < Len(hs)
    THEN LET idx == FindIndex(page.text, hs[i + 1].text, 0)
         IN  Concat(NL, IF idx >= 0 THEN BeforeLine(page.text, idx) ELSE page.text)
    ELSE Concat(NL, page.text)

RECURSIVE SectionTextLoop(_, _, _, _, _, _)
SectionTextLoop(sectionPages, sectionText, hs, i, pageStart, pageEnd) ==
    IF sectionPages = << >> THEN sectionText
    ELSE SectionTextLoop(Tail(sectionPages),
                         Concat(sectionText,
                                SectionPageText(Head(sectionPages), hs, i, pageStart, pageEnd)),
                         hs, i, pageStart, pageEnd)

\* pages.filter((p) => p.pageNumber >= pageStart && p.pageNumber <= pageEnd)
SectionPages(pgs, pageStart, pageEnd) ==
    SelectSeq(pgs, LAMBDA p : p.pageNumber >= pageStart /\ p.pageNumber <= pageEnd)

\* the section of heading i
BuildSection(pgs, hs, i, pageStart, pageEnd) ==
    [heading |-> hs[i].text, level |-> hs[i].level, pageStart |-> pageStart,
     pageEnd |-> pageEnd,
     text |-> TrimText(SectionTextLoop(SectionPages(pgs, pageStart, pageEnd), EmptyStr,
                                       hs, i, pageStart, pageEnd))]

\* pages.map((p) => p.text).join('\n\n')
RECURSIVE JoinPageTexts(_)
JoinPageTexts(pgs) ==
    IF pgs = << >> THEN EmptyStr
    ELSE IF Len(pgs) = 1 THEN Head(pgs).text
    ELSE Concat(Head(pgs).text, Concat(Concat(NL, NL), JoinPageTexts(Tail(pgs))))

buildSections(pgs, hs) ==
    IF Len(hs) = 0
    THEN <<[level |-> 0, pageStart |-> 1, pageEnd |-> Len(pgs),
            text |-> JoinPageTexts(pgs)]>>
    ELSE [i \in 1..Len(hs) |->
             BuildSection(pgs, hs, i, SectionPageStart(hs, i), SectionPageEnd(pgs, hs, i))]

\* lines 79-80 of parseFromBuffer
HeadingsOf(pgs, opts) == IF opts.detectHeadings THEN detectHeadings(pgs, opts) ELSE << >>

Structure(pgs, hs) == [headings |-> hs, sections |-> buildSections(pgs, hs)]

\* no document has been given to the parser
ParserIdle ==
    /\ pdfPages = << >>
    /\ options = DEFAULT_PDF_PARSER_OPTIONS
    /\ parsed = null

\* ======================================================= OpenRouterService
\* env.OPENROUTER_DEFAULT_MODEL
DEFAULT_MODEL == "anthropic/claude-3.5-sonnet"

\* the fallbacks of MODEL_CONFIGS for a primary model
getFallbackModels(model) ==
    IF model = "anthropic/claude-3.5-sonnet"
    THEN <<"anthropic/claude-3-opus", "openai/gpt-4-turbo">>
    ELSE IF model = "anthropic/claude-3-haiku" THEN <<"openai/gpt-3.5-turbo">>
    ELSE << >>

\* { code, message, statusCode, retryable }; statusCode 0 stands for undefined
OpenRouterError(code, message, statusCode, retryable) ==
    [code |-> code, message |-> message, statusCode |-> statusCode, retryable |-> retryable]

\* what executeCompletion throws: an OpenAI.APIError with its status, another
\* Error, or a value that is not an Error; the message is the word that the
\* classification looks for in it, or "failed"
RawErrors ==
    {[type |-> "APIError", status |-> s, message |-> "failed"] : s \in {400, 401, 429, 500, 503}}
    \cup {[type |-> "APIError", status |-> 400, message |-> "model"]}
    \cup {[type |-> "Error", status |-> 0, message |-> m] : m \in {"timeout", "network", "failed"}}
    \cup {[type |-> "string", status |-> 0, message |-> "failed"]}

handleError(error) ==
    IF error.type = "APIError"
    THEN IF error.status = 401
         THEN OpenRouterError("INVALID_API_KEY", error.message, error.status, FALSE)
         ELSE IF error.status = 429
         THEN OpenRouterError("RATE_LIMIT_EXCEEDED", error.message, error.status, TRUE)
         ELSE IF error.status = 503 \/ error.message = "model"
         THEN OpenRouterError("MODEL_UNAVAILABLE", error.message, error.status, TRUE)
         ELSE IF error.status >= 500
         THEN OpenRouterError("UNKNOWN_ERROR", error.message, error.status, TRUE)
         ELSE OpenRouterError("VALIDATION_ERROR", error.message, error.status, FALSE)
    ELSE IF error.type = "Error"
    THEN IF error.message = "timeout"
         THEN OpenRouterError("TIMEOUT", error.message, 0, TRUE)
         ELSE IF error.message = "network"
         THEN OpenRouterError("NETWORK_ERROR", error.message, 0, TRUE)
         ELSE OpenRouterError("UNKNOWN_ERROR", error.message, 0, FALSE)
    ELSE OpenRouterError("UNKNOWN_ERROR", error.message, 0, FALSE)

\* no createCompletion call is in progress
NoCall == [active |-> FALSE]

\* no createCompletion call has ended
NoOutcome == [none |-> TRUE]

\* lines 66-71: the locals of createCompletion before the loops
StartCall(request) ==
    [active |-> TRUE,
     modelRequested |-> OrElse(request.model, DEFAULT_MODEL),
     modelsToTry |-> <<OrElse(request.model, DEFAULT_MODEL)>> \o
                     (IF "fallbackModels" \in DOMAIN request
                      THEN request.fallbackModels
                      ELSE getFallbackModels(OrElse(request.model, DEFAULT_MODEL))),
     mi |-> 0, attempt |-> 0, retryCount |-> 0, fallbackUsed |-> FALSE, lastError |-> null]

createTelemetry(c, modelUsed, success) ==
    [modelRequested |-> c.modelRequested, modelUsed |-> modelUsed, success |-> success,
     retryCount |-> c.retryCount, fallbackUsed |-> c.fallbackUsed]

\* lines 79-97: the response that createCompletion returns
Completed(c, model) ==
    [success |-> TRUE, model |-> model, telemetry |-> createTelemetry(c, model, TRUE)]

\* lines 107-111: throw { ...lastError, telemetry }
Thrown(c) ==
    [success |-> FALSE, error |-> c.lastError,
     telemetry |-> createTelemetry(c, c.modelsToTry[Len(c.modelsToTry)], FALSE)]

\* lines 99-100
Caught(c, err) == [c EXCEPT !.lastError = err, !.retryCount = @ + 1]

\* the call after a failed attempt, and the outcome if that ends the call:
\* lines 101-102, the same model is tried again; lines 101, 105 and 73-75, the
\* next model of modelsToTry is tried; lines 107-111, the call fails and its
\* locals stay as it left them
AfterCatch(c, maxRetries) ==
    IF /\ c.lastError.retryable
       /\ c.lastError.code # "MODEL_UNAVAILABLE"
       /\ c.attempt < maxRetries
    THEN [call |-> [c EXCEPT !.attempt = @ + 1], outcome |-> NoOutcome]
    ELSE IF c.lastError.code = "MODEL_UNAVAILABLE" /\ c.mi + 1 < Len(c.modelsToTry)
    THEN [call |-> [c EXCEPT !.mi = @ + 1, !.attempt = 0, !.fallbackUsed = TRUE],
          outcome |-> NoOutcome]
    ELSE [call |-> [c EXCEPT !.active = FALSE], outcome |-> Thrown(c)]

\* no request has been made
RouterIdle ==
    /\ orConfig = [hasApiKey |-> FALSE, testMode |-> TRUE, maxRetries |-> 3]
    /\ call = NoCall
    /\ attempts = << >>
    /\ outcome = NoOutcome

\* ================================================================ TaskQueue
\* new TaskQueue(): nothing queued, nothing running
QueueIdle ==
    /\ maxConcurrent = 3
    /\ syncQueue = << >>
    /\ asyncQueue = << >>
    /\ runningTasks = {}
    /\ isProcessing = FALSE
    /\ enqueued = << >>
    /\ started = << >>

\* how many tasks the loop of lines 61-67 starts: one for every queued task as
\* long as runningTasks.size < maxConcurrent
AsyncStarts(aq, run) ==
    IF maxConcurrent - Cardinality(run) <= 0 THEN 0
    ELSE IF Len(aq) <= maxConcurrent - Cardinality(run) THEN Len(aq)
    ELSE maxConcurrent - Cardinality(run)

\* processQueues from the head of its first loop until it awaits or returns:
\* with a task in syncQueue it calls executeTask on the first and awaits it
\* (isProcessing stays set); otherwise it starts tasks of asyncQueue and
\* returns.  Gives the fields of the queue and the tasks it started.
processQueues(sq, aq, run) ==
    IF sq # << >>
    THEN [syncQueue |-> Tail(sq), asyncQueue |-> aq, runningTasks |-> run \cup {Head(sq)},
          isProcessing |-> TRUE, started |-> <<Head(sq)>>]
    ELSE [syncQueue |-> sq,
          asyncQueue |-> SubSeq(aq, AsyncStarts(aq, run) + 1, Len(aq)),
          runningTasks |-> run \cup {aq[i] : i \in 1..AsyncStarts(aq, run)},
          isProcessing |-> FALSE,
          started |-> SubSeq(aq, 1, AsyncStarts(aq, run))]

\* the fields of the queue become those of the record q
QueueBecomes(q) ==
    /\ syncQueue' = q.syncQueue
    /\ asyncQueue' = q.asyncQueue
    /\ runningTasks' = q.runningTasks
    /\ isProcessing' = q.isProcessing
    /\ started' = started \o q.started

\* ------------------------------------------------------------- the inputs
\* What stands between two words of a document: a blank, the end of a
\* sentence, a paragraph break (an empty line after a line that ends in a
\* blank), a page break.
SepKinds == {"sp", "dot", "pb", "brk"}

SepText(k) ==
    CASE k = "sp" -> <<SP>>
      [] k = "dot" -> <<DOT, SP>>
      [] k = "pb" -> <<SP, PB>>

RECURSIVE BuildParts(_, _, _, _)
BuildParts(w, s, i, cur) ==
    IF i > Len(w) THEN <<cur>>
    ELSE IF i < Len(w) /\ s[i] = "brk"
         THEN <<cur \o <<w[i]>> >> \o BuildParts(w, s, i + 1, << >>)
         ELSE BuildParts(w, s, i + 1,
                         cur \o <<w[i]>> \o (IF i < Len(w) THEN SepText(s[i]) ELSE << >>))

Breaks(s) == Cardinality({i \in DOMAIN s : s[i] = "brk"})

\* the page texts of the documents: up to MaxWords words on up to MaxParts pages
PartLists ==
    UNION { { BuildParts(w, s, 1, << >>) :
                w \in [1..n -> 1..MaxTok],
                s \in {x \in [1..(IF n = 0 THEN 0 ELSE n - 1) -> SepKinds] :
                          Breaks(x) < MaxParts} } :
            n \in 0..MaxWords }

HeadingLine == <<1>>
HeadingName(i) == IF i = 1 THEN "Chapter 1" ELSE "1.1 Section"

\* a document without detected structure, as the tests' createMockPDF builds it
PlainPdf(parts) ==
    LET pages == [i \in 1..Len(parts) |-> [pageNumber |-> i, text |-> parts[i]]]
    IN  [fullText |-> Join(parts, PARA_SEP), pages |-> pages, sections |-> << >>]

\* a document without headings, as PDFParserService.buildSections returns it
SinglePdf(parts) ==
    LET pages == [i \in 1..Len(parts) |-> [pageNumber |-> i, text |-> parts[i]]]
    IN  [fullText |-> Join(parts, PARA_SEP), pages |-> pages,
         sections |-> <<[heading |-> undefined, level |-> 0, pageStart |-> 1,
                         pageEnd |-> Len(parts), text |-> Join(parts, PARA_SEP)]>>]

\* a document with a heading on top of every page: a section per heading
HeadedPdf(parts) ==
    LET n == Len(parts)
        pages == [i \in 1..n |->
                    [pageNumber |-> i, text |-> Trim(HeadingLine \o PARA_SEP \o parts[i])]]
    IN  [fullText |-> Join([i \in 1..n |-> pages[i].text], PARA_SEP),
         pages |-> pages,
         sections |-> [i \in 1..n |->
                         [heading |-> HeadingName(i), level |-> IF i = 1 THEN 1 ELSE 2,
                          pageStart |-> i, pageEnd |-> IF i < n THEN i + 1 ELSE n,
                          text |-> parts[i]]]]

\* a document whose only page and section carry no text field
BrokenPdf ==
    [fullText |-> HeadingLine,
     pages |-> <<[pageNumber |-> 1, text |-> noText]>>,
     sections |-> <<[heading |-> undefined, level |-> 0, pageStart |-> 1, pageEnd |-> 1,
                     text |-> noText]>>]

\* a document of blanks, as in the test "NO_TEXT_CONTENT error for empty text"
BlankPdf == PlainPdf(<< <<SP, SP, SP>> >>)

Pdfs ==
    {PlainPdf(p) : p \in PartLists} \cup {HeadedPdf(p) : p \in PartLists}
    \cup {SinglePdf(p) : p \in PartLists} \cup {null, BrokenPdf, BlankPdf}

\* the tokenizer is made to fail on the documents without sections only
EncodeMayThrow(pdf) == pdf # null /\ pdf.sections = << >>

NoConfig == << >>

\* new ChunkingService() and new ChunkingService({ minTokens, maxTokens })
CtorConfigs ==
    {NoConfig} \cup { [minTokens |-> a, maxTokens |-> b] : a \in 0..MaxCfg, b \in 2..MaxCfg }

\* input.config: absent, or the remaining options
CallConfigs ==
    {NoConfig} \cup
    { [targetTokens |-> t, overlapTokens |-> o, respectSectionBoundaries |-> r] :
        t \in 1..MaxCfg, o \in 0..MaxOverlap, r \in BOOLEAN }

Init ==
    /\ \E c \in CtorConfigs : config = Overlay(DEFAULT_CHUNKING_CONFIG, c)
    /\ \E pdf \in Pdfs, c \in CallConfigs :
          /\ input = [parsedPdf |-> pdf, config |-> c]
          /\ encodeThrows \in (IF EncodeMayThrow(pdf) THEN BOOLEAN ELSE {FALSE})
    /\ result = NoResult
    /\ calls = 0
    /\ ParserIdle
    /\ RouterIdle
    /\ QueueIdle

\* const result = service.chunkDocument(input)
ChunkDocument ==
    /\ calls < MaxCalls
    /\ result' = chunkDocument(input)
    /\ calls' = calls + 1
    /\ UNCHANGED <<config, input, encodeThrows>>
    /\ UNCHANGED <<parserVars, routerVars, queueVars>>

\* the first call of a service instance
FirstCall == calls = 0 /\ ChunkDocument

Next == FirstCall

Spec == Init /\ [][Next]_vars

\* a service instance that is called again with the same input
NextRepeat == ChunkDocument

SpecRepeat == Init /\ [][NextRepeat]_vars

\* ------------------------------------------------ the parser and its inputs
LineKinds ==
    {<< >>, <<"alpha">>, <<"be">>, <<"Chapter 1">>, <<"Section 2">>, <<WS, "Chapter 1">>}

\* the texts of a page before extractPages trims them: 1 to MaxLines lines
RawPageTexts == UNION {[1..n -> LineKinds] : n \in 1..MaxLines}

\* extractPages: { pageNumber: index + 1, text: pageText.trim() }
PagesOf(raw) == [i \in DOMAIN raw |-> [pageNumber |-> i, text |-> TrimText(raw[i])]]

\* new PDFParserService({ headingPatterns }): the default patterns, or the
\* same list with a pattern that does not compile in the second place
PatternLists ==
    {DEFAULT_PDF_PARSER_OPTIONS.headingPatterns,
     [DEFAULT_PDF_PARSER_OPTIONS.headingPatterns EXCEPT ![2] = "("]}

\* no chunkDocument call is made
ChunkerIdle ==
    /\ config = DEFAULT_CHUNKING_CONFIG
    /\ input = [parsedPdf |-> null, config |-> NoConfig]
    /\ result = NoResult
    /\ calls = 0
    /\ encodeThrows = FALSE

InitParser ==
    /\ ChunkerIdle
    /\ \E n \in 1..MaxPages : \E raw \in [1..n -> RawPageTexts] : pdfPages = PagesOf(raw)
    /\ \E d \in BOOLEAN, ps \in PatternLists :
          options = [DEFAULT_PDF_PARSER_OPTIONS EXCEPT !.detectHeadings = d,
                                                       !.headingPatterns = ps]
    /\ parsed = null
    /\ RouterIdle
    /\ QueueIdle

\* parseFromBuffer, lines 79-80: the headings and the sections of the pages
ParseStructure ==
    /\ parsed = null
    /\ parsed' = Structure(pdfPages, HeadingsOf(pdfPages, options))
    /\ UNCHANGED <<pdfPages, options>>
    /\ UNCHANGED <<chunkerVars, routerVars, queueVars>>

NextParser == ParseStructure

SpecParser == InitParser /\ [][NextParser]_vars

\* ------------------------------------------------- the router and its inputs
Models == {"anthropic/claude-3.5-sonnet", "anthropic/claude-3-opus"}

\* a request names its model or not, and up to MaxFallbacks fallback models or
\* leaves them out
Requests ==
    [model : Models \cup {undefined}]
    \cup [model : Models \cup {undefined},
          fallbackModels : UNION {[1..n -> Models] : n \in 0..MaxFallbacks}]

InitRouter ==
    /\ ChunkerIdle
    /\ ParserIdle
    /\ orConfig \in [hasApiKey : BOOLEAN, testMode : BOOLEAN, maxRetries : 0..MaxRetries]
    /\ call = NoCall
    /\ attempts = << >>
    /\ outcome = NoOutcome
    /\ QueueIdle

\* createCompletion up to its first await: initialize() and the locals
CreateCompletion ==
    /\ ~call.active
    /\ outcome = NoOutcome
    /\ \E request \in Requests :
          IF ~orConfig.hasApiKey /\ ~orConfig.testMode
          THEN /\ outcome' = [success |-> FALSE,
                              error |-> OpenRouterError("INVALID_API_KEY", "required", 401,
                                                        FALSE)]
               /\ call' = call
          ELSE /\ call' = StartCall(request)
               /\ outcome' = outcome
    /\ UNCHANGED <<orConfig, attempts>>
    /\ UNCHANGED <<chunkerVars, parserVars, queueVars>>

\* one pass of the inner loop: executeCompletion returns
AttemptSucceeds ==
    /\ call.active
    /\ outcome' = Completed(call, call.modelsToTry[call.mi + 1])
    /\ call' = [call EXCEPT !.active = FALSE]
    /\ attempts' = Append(attempts, [model |-> call.modelsToTry[call.mi + 1],
                                     index |-> call.mi, code |-> "OK"])
    /\ UNCHANGED orConfig
    /\ UNCHANGED <<chunkerVars, parserVars, queueVars>>

\* one pass of the inner loop: executeCompletion throws (never in test mode)
AttemptFails ==
    /\ call.active
    /\ ~orConfig.testMode
    /\ \E error \in RawErrors :
          /\ call' = AfterCatch(Caught(call, handleError(error)), orConfig.maxRetries).call
          /\ outcome' = AfterCatch(Caught(call, handleError(error)), orConfig.maxRetries).outcome
          /\ attempts' = Append(attempts, [model |-> call.modelsToTry[call.mi + 1],
                                           index |-> call.mi,
                                           code |-> handleError(error).code])
    /\ UNCHANGED orConfig
    /\ UNCHANGED <<chunkerVars, parserVars, queueVars>>

NextRouter == CreateCompletion \/ AttemptSucceeds \/ AttemptFails

SpecRouter == InitRouter /\ [][NextRouter]_vars

\* ------------------------------------------------ the task queue and its use
\* the mode in which task t was enqueued
ModeOf(t) == enqueued[CHOOSE i \in DOMAIN enqueued : enqueued[i].id = t].mode

\* Array.prototype.splice(findIndex(id = t), 1)
Without(q, t) == SelectSeq(q, LAMBDA x : x # t)

InitQueue ==
    /\ ChunkerIdle
    /\ ParserIdle
    /\ RouterIdle
    /\ maxConcurrent \in 1..MaxConcurrent
    /\ syncQueue = << >>
    /\ asyncQueue = << >>
    /\ runningTasks = {}
    /\ isProcessing = FALSE
    /\ enqueued = << >>
    /\ started = << >>

\* enqueue(task, execute, mode) with a task id not used before: the task is
\* pushed and processQueues is called, which returns at once if isProcessing
Enqueue ==
    /\ \E t \in 1..MaxTasks, mode \in {"sync", "async"} :
          /\ \A i \in DOMAIN enqueued : enqueued[i].id # t
          /\ enqueued' = Append(enqueued, [id |-> t, mode |-> mode])
          /\ IF isProcessing
             THEN /\ syncQueue' = IF mode = "sync" THEN Append(syncQueue, t) ELSE syncQueue
                  /\ asyncQueue' = IF mode = "sync" THEN asyncQueue ELSE Append(asyncQueue, t)
                  /\ UNCHANGED <<runningTasks, isProcessing, started>>
             ELSE QueueBecomes(processQueues(
                      IF mode = "sync" THEN Append(syncQueue, t) ELSE syncQueue,
                      IF mode = "sync" THEN asyncQueue ELSE Append(asyncQueue, t),
                      runningTasks))
    /\ UNCHANGED maxConcurrent
    /\ UNCHANGED <<chunkerVars, parserVars, routerVars>>

\* executeTask, lines 82-87: execute() of the awaited task settles, the task
\* leaves runningTasks and processQueues goes on with its loops
SyncTaskSettles ==
    /\ \E t \in runningTasks :
          /\ ModeOf(t) = "sync"
          /\ QueueBecomes(processQueues(syncQueue, asyncQueue, runningTasks \ {t}))
    /\ UNCHANGED <<maxConcurrent, enqueued>>
    /\ UNCHANGED <<chunkerVars, parserVars, routerVars>>

\* executeTaskAsync, lines 98-107: execute() settles, the task leaves
\* runningTasks and processQueues is called
AsyncTaskSettles ==
    /\ \E t \in runningTasks :
          /\ ModeOf(t) = "async"
          /\ IF isProcessing
             THEN /\ runningTasks' = runningTasks \ {t}
                  /\ UNCHANGED <<syncQueue, asyncQueue, isProcessing, started>>
             ELSE QueueBecomes(processQueues(syncQueue, asyncQueue, runningTasks \ {t}))
    /\ UNCHANGED <<maxConcurrent, enqueued>>
    /\ UNCHANGED <<chunkerVars, parserVars, routerVars>>

\* cancel(taskId) of a task that is queued
Cancel ==
    /\ \E t \in 1..MaxTasks :
          /\ \E i \in DOMAIN syncQueue \cup DOMAIN asyncQueue :
                (i \in DOMAIN syncQueue /\ syncQueue[i] = t)
                    \/ (i \in DOMAIN asyncQueue /\ asyncQueue[i] = t)
          /\ syncQueue' = Without(syncQueue, t)
          /\ asyncQueue' = Without(asyncQueue, t)
    /\ UNCHANGED <<maxConcurrent, runningTasks, isProcessing, enqueued, started>>
    /\ UNCHANGED <<chunkerVars, parserVars, routerVars>>

\* clear() with a task queued
Clear ==
    /\ syncQueue # << >> \/ asyncQueue # << >>
    /\ syncQueue' = << >>
    /\ asyncQueue' = << >>
    /\ UNCHANGED <<maxConcurrent, runningTasks, isProcessing, enqueued, started>>
    /\ UNCHANGED <<chunkerVars, parserVars, routerVars>>

NextQueue == Enqueue \/ SyncTaskSettles \/ AsyncTaskSettles \/ Cancel \/ Clear

SpecQueue == InitQueue /\ [][NextQueue]_vars

\* ============================================================== the claims
Called == result # NoResult
Succeeded == Called /\ result.success
Failed == Called /\ ~result.success
Pdf == input.parsedPdf
EffectiveConfig == Overlay(config, input.config)
\* a text that is absent, empty or made of white space only
OnlyWhiteSpace(text) == text = noText \/ \A i \in DOMAIN text : text[i] \in {SP, PB}
NonBlankInput == Pdf # null /\ ~OnlyWhiteSpace(Pdf.fullText)
SectionStrategy == UsesSections(Pdf, EffectiveConfig)
ChunkIds == DOMAIN result.chunks

\* the texts the selected strategy reads
SourceTexts ==
    IF SectionStrategy THEN [i \in DOMAIN Pdf.sections |-> Pdf.sections[i].text]
    ELSE [i \in DOMAIN Pdf.pages |-> Pdf.pages[i].text]

WellTyped == \A i \in DOMAIN SourceTexts : SourceTexts[i] # noText

OverMax(c) == c.tokenCount > result.config.maxTokens

\* ---------------------------------------------------------------------- C1
\* C1: every chunk of a successful result carries the SHA-256 digest of its
\* own final trimmed text, however the chunk was produced.
C1_HashOfFinalText ==
    Succeeded => \A i \in ChunkIds :
        result.chunks[i].hash = generateHash(Trim(result.chunks[i].text))

\* ---------------------------------------------------------------------- C2
OneWord(text) == Len(Words(text)) = 1
OneSentence(text) ==
    Len(splitIntoParagraphs(text)) = 1 /\ Len(splitIntoSentences(text)) = 1

\* the shape a forced append leaves: several paragraphs, and what precedes
\* the last of them counts less than minTokens
ForcedAppend(c) ==
    LET ps == splitIntoParagraphs(c.text)
    IN  /\ SectionStrategy
        /\ Len(ps) >= 2
        /\ countTokens(Join(SubSeq(ps, 1, Len(ps) - 1), PARA_SEP)) < result.config.minTokens

\* C2 as stated: a chunk over maxTokens is a single word or a single sentence.
C2_OverMaxIsAtomic ==
    Succeeded => \A i \in ChunkIds :
        OverMax(result.chunks[i]) =>
            OneWord(result.chunks[i].text) \/ OneSentence(result.chunks[i].text)

\* C2 amended: a chunk over maxTokens is a single word, lies within a single
\* sentence, or is a chunk of the section strategy whose last paragraph was
\* appended to an accumulator that was still under minTokens.
C2_OverMaxIsAtomicOrForced ==
    Succeeded => \A i \in ChunkIds :
        OverMax(result.chunks[i]) =>
            \/ OneWord(result.chunks[i].text)
            \/ OneSentence(result.chunks[i].text)
            \/ ForcedAppend(result.chunks[i])

C2_Witness ==
    /\ Succeeded
    /\ result.config.minTokens <= result.config.maxTokens
    /\ \E i \in ChunkIds :
          /\ OverMax(result.chunks[i])
          /\ ForcedAppend(result.chunks[i])
          /\ ~OneSentence(result.chunks[i].text)
    /\ \E i \in ChunkIds : ~OverMax(result.chunks[i])

\* ---------------------------------------------------------------------- C3
WordAtoms(t) == SelectSeq(t, LAMBDA a : a > 0)

RECURSIVE Flatten(_)
Flatten(ts) == IF ts = << >> THEN << >> ELSE Head(ts) \o Flatten(Tail(ts))

SourceWords == WordAtoms(Flatten(SourceTexts))
Distinct(s) == \A i, j \in DOMAIN s : i # j => s[i] # s[j]
Pos(s, a) == CHOOSE i \in DOMAIN s : s[i] = a
FirstWord(c) == Head(WordAtoms(c.text))
LastWord(c) == WordAtoms(c.text)[Len(WordAtoms(c.text))]

\* the chunks before the renumbering of line 22
MergedChunks ==
    LET raw == RawChunks(Pdf, EffectiveConfig, NewStats)
    IN  mergeSmallChunks(raw.chunks, EffectiveConfig, raw.stats).chunks

\* where the words of a document are pairwise different, a chunk starts and
\* ends no earlier in the document than the chunk before it
InReadingOrder ==
    Distinct(SourceWords) =>
        \A i, j \in ChunkIds :
            (i < j /\ WordAtoms(result.chunks[i].text) # << >>
                   /\ WordAtoms(result.chunks[j].text) # << >>) =>
                /\ Pos(SourceWords, FirstWord(result.chunks[i]))
                     <= Pos(SourceWords, FirstWord(result.chunks[j]))
                /\ Pos(SourceWords, LastWord(result.chunks[i]))
                     <= Pos(SourceWords, LastWord(result.chunks[j]))

\* C3: the sequence numbers of a successful result are 0..N-1 in the order of
\* the list, the list follows the document, and the renumbering leaves every
\* other field of a chunk as the merge pass returned it.
C3_SequenceIsIndex ==
    Succeeded =>
        /\ \A i \in ChunkIds : result.chunks[i].sequence = i - 1
        /\ Len(result.chunks) = Len(MergedChunks)
        /\ \A i \in ChunkIds :
              [result.chunks[i] EXCEPT !.sequence = 0]
                  = [MergedChunks[i] EXCEPT !.sequence = 0]
        /\ InReadingOrder

\* three chunks whose provisional numbers were not 0, 1, 2
C3_Witness ==
    /\ Succeeded
    /\ Len(result.chunks) >= 3
    /\ Distinct(SourceWords)
    /\ \E i \in ChunkIds : MergedChunks[i].sequence # i - 1

\* ---------------------------------------------------------------------- C4
ValidConfig(c) == c.minTokens <= c.targetTokens /\ c.targetTokens <= c.maxTokens

\* C4: no successful result is computed with a configuration that violates
\* minTokens <= targetTokens <= maxTokens.
C4_InvalidConfigRejected == Succeeded => ValidConfig(result.config)

\* ---------------------------------------------------------------------- C5
HasParagraph == \E i \in DOMAIN SourceTexts : splitIntoParagraphs(SourceTexts[i]) # << >>

\* C5 as stated: a non-blank fullText gives success with at least one chunk.
C5_NonBlankGivesChunk ==
    (Called /\ NonBlankInput) => (result.success /\ Len(result.chunks) >= 1)

\* C5 amended: a non-blank fullText, with pages and sections that carry their
\* text, gives success; there is a chunk exactly when a text the selected
\* strategy reads holds a non-blank paragraph.
C5_NonBlankSucceeds ==
    (Called /\ NonBlankInput /\ WellTyped) =>
        /\ result.success
        /\ Len(result.chunks) >= 1 <=> HasParagraph

C5_Witness ==
    /\ Succeeded
    /\ NonBlankInput
    /\ Pdf.sections # << >>
    /\ Len(result.chunks) = 0

\* ---------------------------------------------------------------------- C6
\* C6: a missing document gives EMPTY_DOCUMENT and a blank fullText gives
\* NO_TEXT_CONTENT; a failure has success = false, no chunk, zero statistics
\* and an error descriptor, and a success has no error descriptor.
C6_ValidationFailures ==
    Called =>
        /\ Pdf = null => (Failed /\ result.error.code = "EMPTY_DOCUMENT")
        /\ (Pdf # null /\ OnlyWhiteSpace(Pdf.fullText)) =>
              (Failed /\ result.error.code = "NO_TEXT_CONTENT")
        /\ Failed => /\ result.chunks = << >>
                     /\ \A k \in DOMAIN result.stats : result.stats[k] = 0
                     /\ "error" \in DOMAIN result
        /\ result.success => "error" \notin DOMAIN result

C6_Witness ==
    /\ Failed
    /\ Pdf # null
    /\ Pdf.fullText # << >>
    /\ result.error.code = "NO_TEXT_CONTENT"

\* ---------------------------------------------------------------------- C7
\* a paragraph reaches countTokens, so that encode is called
EncodeCalled == WellTyped /\ HasParagraph

InternalErrorCodes == {"UNKNOWN_ERROR", "TOKENIZATION_ERROR"}

\* C7 as stated: an exception inside the strategies, the splitters, the merger
\* or the tokenizer gives a failure with UNKNOWN_ERROR or TOKENIZATION_ERROR.
C7_EveryExceptionFails ==
    (Called /\ NonBlankInput) =>
        ((Raises(Pdf, EffectiveConfig) \/ (encodeThrows /\ EncodeCalled)) =>
            (Failed /\ result.error.code \in InternalErrorCodes))

\* C7 amended: every call on a non-blank document returns a result; an
\* exception of the strategies gives a failure with UNKNOWN_ERROR that carries
\* the original message, and an exception of the tokenizer is recovered in
\* countTokens and the call succeeds.
C7_ExceptionsContained ==
    (Called /\ NonBlankInput) =>
        IF Raises(Pdf, EffectiveConfig)
        THEN /\ Failed
             /\ result.error.code = "UNKNOWN_ERROR"
             /\ result.error.message[Len(result.error.message)] = TypeErrorMessage
        ELSE result.success

C7_Witness ==
    /\ Failed
    /\ NonBlankInput
    /\ result.error.code = "UNKNOWN_ERROR"

PartOf(a, b) == \E k \in 0..(Len(b) - Len(a)) : SubSeq(b, k + 1, k + Len(a)) = a

NamesSection(c, sec) ==
    /\ c.metadata.headingContext = sec.heading
    /\ c.metadata.chapter = (IF sec.level = 1 THEN sec.heading ELSE undefined)
    /\ c.metadata.section = (IF sec.level > 1 THEN sec.heading ELSE undefined)

\* C9: under the section strategy every chunk holds paragraphs of one section
\* only, and its metadata name that section.
C9_ChunkWithinOneSection ==
    (Succeeded /\ SectionStrategy) =>
        \A i \in ChunkIds : \E k \in DOMAIN Pdf.sections :
            /\ NamesSection(result.chunks[i], Pdf.sections[k])
            /\ \A p \in DOMAIN splitIntoParagraphs(result.chunks[i].text) :
                  PartOf(splitIntoParagraphs(result.chunks[i].text)[p],
                         Pdf.sections[k].text)

\* --------------------------------------------------------------------- C10
RawCount == Len(RawChunks(Pdf, EffectiveConfig, NewStats).chunks)

Mergeable(a, b) ==
    /\ a.tokenCount < result.config.minTokens
    /\ b.tokenCount < result.config.minTokens
    /\ countTokens(a.text \o PARA_SEP \o b.text) <= result.config.maxTokens

\* C10: the merge pass leaves no two neighbours that are both under minTokens
\* and fit together in maxTokens, and mergeCount is the number of chunks the
\* pass removed.
C10_MergePassComplete ==
    Succeeded =>
        /\ \A i \in ChunkIds :
              (i + 1) \in ChunkIds => ~Mergeable(result.chunks[i], result.chunks[i + 1])
        /\ result.stats.mergeCount = RawCount - Len(result.chunks)

C10_Witness ==
    /\ Succeeded
    /\ result.stats.mergeCount >= 1
    /\ Len(result.chunks) >= 2

\* --------------------------------------------------------------------- C11
RECURSIVE SumTokenCount(_)
SumTokenCount(chunks) ==
    IF chunks = << >> THEN 0 ELSE Head(chunks).tokenCount + SumTokenCount(Tail(chunks))

RECURSIVE SumCountTokens(_)
SumCountTokens(texts) ==
    IF texts = << >> THEN 0 ELSE countTokens(Head(texts)) + SumCountTokens(Tail(texts))

\* the paragraphs of the texts the selected strategy reads, in document order
RECURSIVE ParagraphsOf(_)
ParagraphsOf(texts) ==
    IF texts = << >> THEN << >>
    ELSE splitIntoParagraphs(Head(texts)) \o ParagraphsOf(Tail(texts))

SourceParagraphs == ParagraphsOf(SourceTexts)
ParagraphTokens == SumCountTokens(SourceParagraphs)

AbsDiff(a, b) == IF a >= b THEN a - b ELSE b - a

\* every word of the document fits the target size of a piece
WordsFitTarget ==
    \A i \in DOMAIN SourceParagraphs : \A k \in DOMAIN Words(SourceParagraphs[i]) :
        countTokens(Words(SourceParagraphs[i])[k]) <= result.config.targetTokens

\* C11: under the page strategy a document whose paragraphs count more than
\* maxTokens tokens gives at least two chunks, and the chunks' tokenCount sum
\* to the paragraphs' token count up to one token per paragraph (separators).
\* Stated for valid configurations and words that fit targetTokens only.
C11_PageStrategySplitsAndKeepsTokens ==
    (/\ Succeeded
     /\ ~SectionStrategy
     /\ WellTyped
     /\ ValidConfig(result.config)
     /\ WordsFitTarget
     /\ ParagraphTokens > result.config.maxTokens) =>
        /\ Len(result.chunks) >= 2
        /\ AbsDiff(SumTokenCount(result.chunks), ParagraphTokens) <= Len(SourceParagraphs)

\* --------------------------------------------------------------------- C12
\* C12: a document of a single paragraph that counts more than maxTokens tokens
\* gives at least two chunks, under either strategy.  Stated for valid
\* configurations and words that fit targetTokens only.
C12_LargeParagraphGivesTwoChunks ==
    (/\ Succeeded
     /\ WellTyped
     /\ ValidConfig(result.config)
     /\ WordsFitTarget
     /\ Len(SourceParagraphs) = 1
     /\ countTokens(SourceParagraphs[1]) > result.config.maxTokens) =>
        Len(result.chunks) >= 2

\* --------------------------------------------------------------------- C13
\* the non-empty paragraphs of a section, joined by the paragraph separator
SectionParagraphs(sec) == Join(splitIntoParagraphs(sec.text), PARA_SEP)

\* the section has a paragraph and its paragraphs fit maxTokens together
SectionFits(sec) ==
    /\ splitIntoParagraphs(sec.text) # << >>
    /\ countTokens(SectionParagraphs(sec)) <= result.config.maxTokens

\* the one chunk that holds all the paragraphs of a section
IsWholeSection(chunks, sec) ==
    /\ Len(chunks) = 1
    /\ chunks[1].text = SectionParagraphs(sec)
    /\ chunks[1].tokenCount = countTokens(SectionParagraphs(sec))

WellFormedChunk(c) ==
    /\ Trim(c.text) # << >>
    /\ c.tokenCount >= 1
    /\ c.tokenCount = countTokens(c.text)

\* C14: for every configuration with minTokens <= targetTokens <= maxTokens,
\* minTokens = 0 included, every returned chunk has a non-empty trimmed text
\* and a tokenCount of at least 1 that is the token count of its text.
C14_ChunksAreWellFormed ==
    (Succeeded /\ ValidConfig(result.config)) =>
        \A i \in ChunkIds : WellFormedChunk(result.chunks[i])

\* --------------------------------------------------------------------- C15
TokenCounts == {result.chunks[i].tokenCount : i \in ChunkIds}

\* C15: on a successful result totalChunks is the number of chunks, and where
\* there is a chunk minTokens and maxTokens are the smallest and the largest
\* tokenCount, totalTokens is the sum of the chunks' tokenCount and
\* averageTokens = round(totalTokens / totalChunks), between the two.
C15_StatsAgreeWithChunks ==
    Succeeded =>
        /\ result.stats.totalChunks = Len(result.chunks)
        /\ Len(result.chunks) > 0 =>
              /\ result.stats.minTokens \in TokenCounts
              /\ result.stats.maxTokens \in TokenCounts
              /\ \A t \in TokenCounts :
                    result.stats.minTokens <= t /\ t <= result.stats.maxTokens
              /\ result.stats.totalTokens = SumTokenCount(result.chunks)
              /\ result.stats.averageTokens =
                    RoundDiv(result.stats.totalTokens, result.stats.totalChunks)
              /\ result.stats.minTokens <= result.stats.averageTokens
              /\ result.stats.averageTokens <= result.stats.maxTokens

\* --------------------------------------------------------------------- C16
Parsed == parsed # null

\* the lines of a text that are not blank
NonBlankLines(text) == SelectSeq(text, LAMBDA l : TrimLine(l) # << >>)

RECURSIVE AllPageLines(_)
AllPageLines(pgs) ==
    IF pgs = << >> THEN << >> ELSE NonBlankLines(Head(pgs).text) \o AllPageLines(Tail(pgs))

\* C16: without headings buildSections returns one section of level 0 from
\* page 1 to the last page with the text of all pages; otherwise one section
\* per heading, in heading order, from the page of its heading to the page of
\* the next heading, the last one to the last page, and pageStart <= pageEnd.
C16_SectionsFollowHeadings ==
    Parsed =>
        IF parsed.headings = << >>
        THEN /\ Len(parsed.sections) = 1
             /\ parsed.sections[1].level = 0
             /\ parsed.sections[1].pageStart = 1
             /\ parsed.sections[1].pageEnd = Len(pdfPages)
             /\ NonBlankLines(parsed.sections[1].text) = AllPageLines(pdfPages)
        ELSE /\ Len(parsed.sections) = Len(parsed.headings)
             /\ \A i \in DOMAIN parsed.sections :
                   /\ parsed.sections[i].heading = parsed.headings[i].text
                   /\ parsed.sections[i].level = parsed.headings[i].level
                   /\ parsed.sections[i].pageStart = parsed.headings[i].pageNumber
                   /\ parsed.sections[i].pageEnd =
                         (IF i < Len(parsed.headings) THEN parsed.headings[i + 1].pageNumber
                          ELSE Len(pdfPages))
                   /\ parsed.sections[i].pageStart <= parsed.sections[i].pageEnd

C16_Witness ==
    /\ Parsed
    /\ Len(parsed.headings) >= 2
    /\ parsed.headings[1].pageNumber < parsed.headings[2].pageNumber
    /\ Len(parsed.sections) >= 2

\* --------------------------------------------------------------------- C17
TrimmedLines(ls) == [k \in DOMAIN ls |-> TrimLine(ls[k])]

\* the lines of a document are pairwise different, so that a line of a section
\* text is one line of one page
DistinctLines == Distinct(TrimmedLines(AllPageLines(pdfPages)))

SectionLines(i) == TrimmedLines(NonBlankLines(parsed.sections[i].text))

InSeq(x, s) == \E k \in DOMAIN s : s[k] = x

C18_ResultCarriesEffectiveConfig ==
    Called => result.config = Overlay(config, input.config)

\* the error codes that the README's table marks as retried on the same model
ReadmeRetryable == {"RATE_LIMIT_EXCEEDED", "TIMEOUT", "NETWORK_ERROR"}

\* the error codes that the claim says end the call at once
ReadmeFinal == {"INVALID_API_KEY", "VALIDATION_ERROR", "UNKNOWN_ERROR"}

\* the attempts made on the model at place k of modelsToTry
AttemptsOn(k) == {i \in DOMAIN attempts : attempts[i].index = k}

\* C19: an attempt is repeated on the same model only after an error that the
\* README lists as retryable, a model is attempted at most maxRetries + 1 times,
\* and an error classified INVALID_API_KEY, VALIDATION_ERROR or UNKNOWN_ERROR is
\* the last attempt of a call that has failed.
C19_OnlyRetryableErrorsAreRetried ==
    /\ \A i \in DOMAIN attempts :
          (i + 1 \in DOMAIN attempts /\ attempts[i + 1].index = attempts[i].index)
             => attempts[i].code \in ReadmeRetryable
    /\ \A i \in DOMAIN attempts :
          Cardinality(AttemptsOn(attempts[i].index)) <= orConfig.maxRetries + 1
    /\ \A i \in DOMAIN attempts :
          attempts[i].code \in ReadmeFinal
             => i = Len(attempts) /\ ~call.active /\ outcome # NoOutcome /\ ~outcome.success

\* the places of modelsToTry that were attempted, in the order of the attempts
AttemptedInOrder ==
    /\ \A i \in DOMAIN attempts :
          i + 1 \in DOMAIN attempts => attempts[i].index <= attempts[i + 1].index
    /\ \A i \in DOMAIN attempts : attempts[i].model = call.modelsToTry[attempts[i].index + 1]

\* every model of modelsToTry was attempted
AllAttempted == \A k \in DOMAIN call.modelsToTry : AttemptsOn(k - 1) # {}

\* the attempts that failed
FailedAttempts == {i \in DOMAIN attempts : attempts[i].code # "OK"}

\* createCompletion ended with telemetry
HasTelemetry == outcome # NoOutcome /\ "telemetry" \in DOMAIN outcome

\* C20: a call is reported as failed only after every model of modelsToTry was
\* attempted, in the listed order; in the telemetry of every outcome modelUsed
\* was attempted, fallbackUsed is true exactly when modelUsed differs from
\* modelRequested, and retryCount is the number of failed attempts.
C20_FallbacksAndTelemetry ==
    HasTelemetry =>
       /\ AttemptedInOrder
       /\ ~outcome.success => AllAttempted
       /\ \E i \in DOMAIN attempts : attempts[i].model = outcome.telemetry.modelUsed
       /\ outcome.telemetry.fallbackUsed
             <=> outcome.telemetry.modelUsed # outcome.telemetry.modelRequested
       /\ outcome.telemetry.retryCount = Cardinality(FailedAttempts)

\* --------------------------------------------------------------------- C21
\* the texts of a list of chunks, in the order of the list
TextsOf(chunks) == [i \in DOMAIN chunks |-> chunks[i].text]

\* the call on the same text given as the one section of a document, with
\* respectSectionBoundaries set
AsOneSection ==
    [parsedPdf |-> SinglePdf(<<Pdf.pages[1].text>>),
     config |-> Overlay(input.config, [respectSectionBoundaries |-> TRUE])]

\* a text of a single page, read by the page strategy
OnePageByPages == Succeeded /\ ~SectionStrategy /\ WellTyped /\ Len(Pdf.pages) = 1

\* C21: a text that is the single page of a document gives, under the page
\* strategy, chunks with the same texts in the same order as the same text
\* gives as the single section of a document under the section strategy, with
\* the same configuration; no accumulator text is dropped by one of the two.
C21_PageStrategyLikeSectionStrategy ==
    OnePageByPages => TextsOf(result.chunks) = TextsOf(chunkDocument(AsOneSection).chunks)

\* --------------------------------------------------------------------- C22
\* the words and full stops of a text, without the white space
Visible(t) == SelectSeq(t, LAMBDA a : a \notin {SP, PB})

\* a is b with some of its elements left out: the elements of a occur in b in
\* the order of a
RECURSIVE IsSubsequence(_, _)
IsSubsequence(a, b) ==
    IF a = << >> THEN TRUE
    ELSE IF b = << >> THEN FALSE
    ELSE IF Head(a) = Head(b) THEN IsSubsequence(Tail(a), Tail(b))
    ELSE IsSubsequence(a, Tail(b))

\* the fragments that splitLargeParagraph makes of a paragraph
Fragments(tp) == splitLargeParagraph(tp, result.config, NewStats, PageMeta(1, 1), 0).chunks

\* C22: the fragments of a paragraph of more than maxTokens tokens hold every
\* sentence of the paragraph, whole or as its words, in the order of the
\* paragraph: the words and full stops of the paragraph occur in that order in
\* the texts of the fragments read one after the other.
C22_SplitterKeepsEverySentence ==
    (Succeeded /\ WellTyped) =>
        \A i \in DOMAIN SourceParagraphs :
            countTokens(SourceParagraphs[i]) > result.config.maxTokens =>
                IsSubsequence(Visible(SourceParagraphs[i]),
                              Visible(Flatten(TextsOf(Fragments(SourceParagraphs[i])))))

\* --------------------------------------------------------------------- C23
\* processSection after the first j paragraphs of a section
SectionStateAt(sec, j) ==
    SectionParagraphLoop(SubSeq(splitIntoParagraphs(sec.text), 1, j),
                         [chunks |-> << >>, cur |-> EmptySeg(sec), seq |-> 0,
                          stats |-> NewStats], sec, result.config)

\* tp counts at most maxTokens tokens and does not fit into the accumulator
Overflows(cur, tp) ==
    /\ countTokens(tp) <= result.config.maxTokens
    /\ cur.tokenCount > 0
    /\ countTokens(cur.text \o PARA_SEP \o tp) > result.config.maxTokens

\* what the claim says of the step from before to after, made by paragraph tp
OverflowStep(before, after, tp) ==
    IF before.cur.tokenCount >= result.config.minTokens
    THEN /\ Len(after.chunks) = Len(before.chunks) + 1
         /\ SubSeq(after.chunks, 1, Len(before.chunks)) = before.chunks
         /\ after.chunks[Len(after.chunks)].text = Trim(before.cur.text)
         /\ after.chunks[Len(after.chunks)].tokenCount = before.cur.tokenCount
         /\ after.cur.text = tp
         /\ after.cur.tokenCount = countTokens(tp)
    ELSE /\ after.chunks = before.chunks
         /\ after.cur.text = before.cur.text \o PARA_SEP \o tp
         /\ after.cur.tokenCount = countTokens(before.cur.text \o PARA_SEP \o tp)

\* the places of a section where a paragraph follows j paragraphs
ParagraphSteps(sec) == 0..(Len(splitIntoParagraphs(sec.text)) - 1)

\* C23: under the section strategy, when a paragraph of at most maxTokens tokens
\* does not fit into the accumulator, the accumulator is emitted and restarted
\* from the paragraph if it counts at least minTokens tokens, and otherwise the
\* paragraph is appended and the accumulator counts the combined text; such a
\* step emits no chunk under minTokens.
C23_OverflowFlushesOnlyAtMin ==
    (Succeeded /\ SectionStrategy) =>
        \A k \in DOMAIN Pdf.sections : \A j \in ParagraphSteps(Pdf.sections[k]) :
            Overflows(SectionStateAt(Pdf.sections[k], j).cur,
                      splitIntoParagraphs(Pdf.sections[k].text)[j + 1]) =>
                /\ OverflowStep(SectionStateAt(Pdf.sections[k], j),
                                SectionStateAt(Pdf.sections[k], j + 1),
                                splitIntoParagraphs(Pdf.sections[k].text)[j + 1])
                /\ \A c \in Len(SectionStateAt(Pdf.sections[k], j).chunks) + 1
                            .. Len(SectionStateAt(Pdf.sections[k], j + 1).chunks) :
                      SectionStateAt(Pdf.sections[k], j + 1).chunks[c].tokenCount
                          >= result.config.minTokens

\* a paragraph was appended to an accumulator under minTokens that it did not
\* fit into, and another paragraph made an accumulator of minTokens be emitted
C23_Witness ==
    /\ Succeeded
    /\ SectionStrategy
    /\ \E k \in DOMAIN Pdf.sections : \E j \in ParagraphSteps(Pdf.sections[k]) :
          /\ Overflows(SectionStateAt(Pdf.sections[k], j).cur,
                       splitIntoParagraphs(Pdf.sections[k].text)[j + 1])
          /\ SectionStateAt(Pdf.sections[k], j).cur.tokenCount < result.config.minTokens
    /\ \E k \in DOMAIN Pdf.sections : \E j \in ParagraphSteps(Pdf.sections[k]) :
          /\ Overflows(SectionStateAt(Pdf.sections[k], j).cur,
                       splitIntoParagraphs(Pdf.sections[k].text)[j + 1])
          /\ SectionStateAt(Pdf.sections[k], j).cur.tokenCount >= result.config.minTokens

\* --------------------------------------------------------------------- C24
\* the texts of the chunks that the step from before to after emitted
EmittedTexts(before, after) ==
    TextsOf(SubSeq(after.chunks, Len(before.chunks) + 1, Len(after.chunks)))

\* what the claim says is emitted for an accumulator cur and the fragment
\* texts ft of an over-long paragraph
ExpectedTexts(cur, ft) ==
    IF cur.tokenCount >= result.config.minTokens THEN <<Trim(cur.text)>> \o ft
    ELSE IF cur.tokenCount = 0 THEN ft
    ELSE IF countTokens(cur.text \o PARA_SEP \o ft[1]) <= result.config.maxTokens
    THEN <<cur.text \o PARA_SEP \o ft[1]>> \o Tail(ft)
    ELSE <<Trim(cur.text)>> \o ft

\* the step of an over-long paragraph tp as the claim describes it
LargeStep(before, after, tp) ==
    /\ SubSeq(after.chunks, 1, Len(before.chunks)) = before.chunks
    /\ EmittedTexts(before, after) = ExpectedTexts(before.cur, TextsOf(Fragments(tp)))
    /\ after.cur.text = << >>
    /\ after.cur.tokenCount = 0

\* C24: under the section strategy, at a paragraph of more than maxTokens
\* tokens, an accumulator of at least minTokens is emitted before the fragments;
\* a non-empty accumulator under minTokens is joined by the paragraph separator
\* with the first fragment if that fits maxTokens and is otherwise emitted
\* before the fragments; then come all the fragments, and the accumulator is
\* empty.  So the accumulator's text is emitted once, before the paragraph's.
C24_LargeParagraphKeepsAccumulator ==
    (Succeeded /\ SectionStrategy) =>
        \A k \in DOMAIN Pdf.sections : \A j \in ParagraphSteps(Pdf.sections[k]) :
            countTokens(splitIntoParagraphs(Pdf.sections[k].text)[j + 1])
                    > result.config.maxTokens =>
                LargeStep(SectionStateAt(Pdf.sections[k], j),
                          SectionStateAt(Pdf.sections[k], j + 1),
                          splitIntoParagraphs(Pdf.sections[k].text)[j + 1])

\* the accumulator was non-empty and under minTokens before tp
UnderMinBefore(cur, tp) ==
    /\ countTokens(tp) > result.config.maxTokens
    /\ cur.tokenCount > 0
    /\ cur.tokenCount < result.config.minTokens

\* an accumulator under minTokens went in front of the first fragment of an
\* over-long paragraph
C24_Witness ==
    /\ Succeeded
    /\ SectionStrategy
    /\ \E k \in DOMAIN Pdf.sections : \E j \in ParagraphSteps(Pdf.sections[k]) :
          /\ UnderMinBefore(SectionStateAt(Pdf.sections[k], j).cur,
                            splitIntoParagraphs(Pdf.sections[k].text)[j + 1])
          /\ Len(EmittedTexts(SectionStateAt(Pdf.sections[k], j),
                              SectionStateAt(Pdf.sections[k], j + 1)))
                = Len(Fragments(splitIntoParagraphs(Pdf.sections[k].text)[j + 1]))

\* --------------------------------------------------------------------- C25
\* the chunks that the selected strategy hands to the merge pass
RawInput == RawChunks(Pdf, EffectiveConfig, NewStats).chunks

\* out[1] is the first n chunks of raw, merged
MergedOf(raw, n, c) ==
    /\ c.text = Join(TextsOf(SubSeq(raw, 1, n)), PARA_SEP)
    /\ c.metadata.pageStart = raw[1].metadata.pageStart
    /\ c.metadata.pageEnd = raw[n].metadata.pageEnd

\* out is raw with runs of neighbours merged: nothing dropped, nothing moved
RECURSIVE MergedFrom(_, _)
MergedFrom(raw, out) ==
    IF out = << >> THEN raw = << >>
    ELSE \E n \in 1..Len(raw) :
            /\ MergedOf(raw, n, out[1])
            /\ MergedFrom(SubSeq(raw, n + 1, Len(raw)), Tail(out))

\* C25: the merge pass neither drops nor reorders text: every chunk it returns
\* is a run of the chunks it received, joined by the paragraph separator, with
\* the pageStart of the first and the pageEnd of the last of them, the runs
\* cover the received chunks in order, and the last run is emitted also when it
\* is under minTokens.
C25_MergeKeepsTextAndOrder ==
    Succeeded =>
        /\ MergedFrom(RawInput, result.chunks)
        /\ Join(TextsOf(result.chunks), PARA_SEP) = Join(TextsOf(RawInput), PARA_SEP)

\* a merge joined chunks that ended on different pages
C25_Witness ==
    /\ Succeeded
    /\ result.stats.mergeCount >= 1
    /\ Len(result.chunks) < Len(RawInput)
    /\ \E i \in ChunkIds :
          /\ result.chunks[i].metadata.pageStart # result.chunks[i].metadata.pageEnd
          /\ \E k \in DOMAIN RawInput :
                RawInput[k].metadata.pageEnd # result.chunks[i].metadata.pageEnd

\* --------------------------------------------------------------------- C26
\* the chunks have the same text, token count and hash
SameContent(a, b) == a.text = b.text /\ a.tokenCount = b.tokenCount /\ a.hash = b.hash

\* chunk c came out of the merge pass as it went in
PassedThrough(c, raw) == \E k \in DOMAIN raw : SameContent(c, raw[k])

\* chunk c starts with a received chunk that was under minTokens
StartsUnderMin(c, raw) ==
    \E k \in DOMAIN raw :
        /\ raw[k].tokenCount < result.config.minTokens
        /\ Len(c.text) > Len(raw[k].text)
        /\ SubSeq(c.text, 1, Len(raw[k].text) + 1) = raw[k].text \o PARA_SEP

\* what the claim says of the chunks out that the merge pass made of raw
MergeWithinMax(raw, out) ==
    /\ \A i \in DOMAIN out :
          ~PassedThrough(out[i], raw) =>
              /\ out[i].tokenCount <= result.config.maxTokens
              /\ out[i].tokenCount = countTokens(out[i].text)
              /\ StartsUnderMin(out[i], raw)
    /\ \A i \in DOMAIN out : OverMax(out[i]) => PassedThrough(out[i], raw)
    /\ \A k \in DOMAIN raw :
          raw[k].tokenCount > result.config.maxTokens =>
              \E i \in DOMAIN out : SameContent(out[i], raw[k])

\* C26: a chunk that the merge pass made of several starts with a chunk under
\* minTokens and counts at most maxTokens tokens, so every returned chunk over
\* maxTokens is a received one with its text, tokenCount and hash, and every
\* received chunk over maxTokens is returned like that.
C26_MergeNeverExceedsMax == Succeeded => MergeWithinMax(RawInput, result.chunks)

\* a chunk over maxTokens follows a chunk under minTokens and was not merged
\* with it
C26_Witness ==
    /\ Succeeded
    /\ \E i \in ChunkIds :
          /\ i > 1
          /\ OverMax(result.chunks[i])
          /\ result.chunks[i - 1].tokenCount < result.config.minTokens
          /\ result.chunks[i - 1].tokenCount > 0

\* --------------------------------------------------------------------- C27
\* round((overlapTokens / targetTokens) * n), and no more than the n words
RoundedOverlap(n) ==
    IF RoundDiv(result.config.overlapTokens * n, result.config.targetTokens) > n THEN n
    ELSE RoundDiv(result.config.overlapTokens * n, result.config.targetTokens)

\* the last r words of a fragment
LastWords(ws, r) == SubSeq(ws, Len(ws) - r + 1, Len(ws))

\* the fragments rest follow a fragment of the words prev: each starts with the
\* r last words of the one before it and goes on with the words of ws after
\* the first p
RECURSIVE SeededFrom(_, _, _, _, _)
SeededFrom(prev, rest, r, ws, p) ==
    IF rest = << >> THEN p = Len(ws)
    ELSE LET f == Words(rest[1].text)
         IN  /\ Len(f) > r
             /\ p + Len(f) - r <= Len(ws)
             /\ SubSeq(f, 1, r) = LastWords(prev, r)
             /\ SubSeq(f, r + 1, Len(f)) = SubSeq(ws, p + 1, p + Len(f) - r)
             /\ SeededFrom(f, Tail(rest), RoundedOverlap(Len(f)), ws, p + Len(f) - r)

\* the fragments fr of the words ws are windows seeded as the claim says
SeededWindows(fr, ws) ==
    /\ fr # << >>
    /\ Len(Words(fr[1].text)) <= Len(ws)
    /\ Words(fr[1].text) = SubSeq(ws, 1, Len(Words(fr[1].text)))
    /\ SeededFrom(Words(fr[1].text), Tail(fr), RoundedOverlap(Len(Words(fr[1].text))),
                  ws, Len(Words(fr[1].text)))

\* the sentences that splitLargeParagraph hands to splitByWords
LongSentences ==
    {s \in UNION {{splitIntoSentences(SourceParagraphs[i])[k] :
                      k \in DOMAIN splitIntoSentences(SourceParagraphs[i])} :
                  i \in {j \in DOMAIN SourceParagraphs :
                            countTokens(SourceParagraphs[j]) > result.config.maxTokens}} :
        countTokens(s) > result.config.maxTokens}

\* the input of the call with overlapTokens set to o
WithOverlap(o) == [input EXCEPT !.config = Overlay(input.config, [overlapTokens |-> o])]

\* C27: in splitByWords the buffer after a fragment of n words starts with the
\* round((overlapTokens / targetTokens) * n) last words of the fragment, zero
\* words included, and goes on with the word that did not fit; where no
\* sentence exceeds maxTokens the chunks do not depend on overlapTokens.
C27_OverlapSeedsNextWindow ==
    (Succeeded /\ WellTyped) =>
        /\ \A s \in LongSentences : SeededWindows(splitByWords(s, result.config), Words(s))
        /\ LongSentences = {} =>
              \A o \in 0..MaxOverlap : chunkDocument(WithOverlap(o)).chunks = result.chunks

\* --------------------------------------------------------------------- C28
\* the pattern at place q of the configured list is well formed and matches
Matches(q, line) ==
    Compiles(options.headingPatterns[q]) /\ Test(options.headingPatterns[q], line)

\* the first place, from 1, of the configured list whose pattern matches
FirstPlace(line) ==
    CHOOSE q \in DOMAIN options.headingPatterns :
        Matches(q, line) /\ \A r \in 1..(q - 1) : ~Matches(r, line)

\* places 1 and 2 give level 1, places 3 and 4 level 2, the others level 3
LevelOfPlace(q) == IF q <= 2 THEN 1 ELSE IF q <= 4 THEN 2 ELSE 3

\* the trimmed line is as long as a heading may be and matches a pattern
Qualifies(line) ==
    /\ LineLength(line) >= options.minHeadingLength
    /\ LineLength(line) <= options.maxHeadingLength
    /\ \E q \in DOMAIN options.headingPatterns : Matches(q, line)

\* the headings found on line l, from 0, of page p
HeadingsAt(p, l) ==
    {i \in DOMAIN parsed.headings :
        parsed.headings[i].pageNumber = p /\ parsed.headings[i].position = l}

InSomeSection(line) == \E i \in DOMAIN parsed.sections : InSeq(line, SectionLines(i))

getStatus ==
    [syncPending |-> Len(syncQueue),
     asyncPending |-> Len(asyncQueue),
     running |-> Cardinality(runningTasks)]

\* the sync-mode tasks of a sequence of task ids, in its order
SyncOf(ids) == SelectSeq(ids, LAMBDA t : ModeOf(t) = "sync")

\* sync-mode tasks run one at a time
OneSyncAtATime == Cardinality({t \in runningTasks : ModeOf(t) = "sync"}) <= 1

\* the sync-mode tasks started so far were started in the order of their
\* enqueue calls
SyncInEnqueueOrder ==
    IsSubsequence(SyncOf(started), SyncOf([i \in DOMAIN enqueued |-> enqueued[i].id]))

\* C30: in every state the task queue reaches by enqueue, completion, cancel
\* and clear, getStatus().running is at most maxConcurrent, at most one
\* sync-mode task is running, and the sync-mode tasks started so far were
\* started in the order in which they were enqueued.
C30_RunningWithinMaxConcurrent ==
    /\ getStatus.running <= maxConcurrent
    /\ OneSyncAtATime
    /\ SyncInEnqueueOrder

\* what the code keeps: the async-mode tasks running are at most
\* maxConcurrent, so that running is at most maxConcurrent + 1, and the
\* sync-mode tasks run one at a time in enqueue order
C30_AsyncWithinMaxConcurrent ==
    /\ Cardinality({t \in runningTasks : ModeOf(t) = "async"}) <= maxConcurrent
    /\ getStatus.running <= maxConcurrent + 1
    /\ OneSyncAtATime
    /\ SyncInEnqueueOrder

\* a sync-mode task running next to maxConcurrent async-mode tasks
C30_SyncBesideFullAsync ==
    /\ Cardinality({t \in runningTasks : ModeOf(t) = "async"}) = maxConcurrent
    /\ \E t \in runningTasks : ModeOf(t) = "sync"

====
